---------------------------- MODULE Spec2Model ----------------------------
(***************************************************************************)
(* Model of decision-gate-provider-sdk/python/provider.py: the             *)
(* Content-Length framed JSON-RPC evidence provider (frame codec, message  *)
(* parser, request dispatcher, evidence handler, session loop).            *)
(*                                                                         *)
(* Byte strings are kept run-length encoded: a sequence of runs            *)
(* [b |-> byte, n |-> count], adjacent runs carrying different bytes and   *)
(* every count >= 1.  The encoding lets the model hold streams of more     *)
(* than a mebibyte, so the limits keep the values the program gives them.  *)
(***************************************************************************)
EXTENDS Integers, Sequences, FiniteSets, TLC

VARIABLES
    stdin,      \* sys.stdin.buffer: the input bytes not yet consumed
    stdout,     \* sys.stdout.buffer: the frames written and flushed, oldest first
    sent,       \* the response objects handed to write_frame, oldest first
    pc,         \* where the process is: see the actions below
    calls,      \* the outcomes of the read_frame calls so far, oldest first
    plan,       \* how the input was put together (never read by the program)
    request,    \* the request handed to handle_request
    response    \* the response handle_request returned

vars == <<stdin, stdout, sent, pc, calls, plan, request, response>>

---------------------------------------------------------------------------
(* Limits and constants (provider.py, SECTION: Limits and Constants)        *)

MAX_HEADER_BYTES == 8 * 1024
MAX_BODY_BYTES == 1024 * 1024
DISCARD_CHUNK_BYTES == 8 * 1024

---------------------------------------------------------------------------
(* Byte strings                                                            *)

LF == 10
CR == 13
COLON == 58

Run(b, n) == [b |-> b, n |-> n]

Empty == << >>

\* b"x" * n
Rep(b, n) == IF n > 0 THEN <<Run(b, n)>> ELSE Empty

\* a + b on bytes
Cat(a, b) ==
    IF a = Empty THEN b
    ELSE IF b = Empty THEN a
    ELSE IF a[Len(a)].b = b[1].b
         THEN SubSeq(a, 1, Len(a) - 1)
                  \o <<Run(b[1].b, a[Len(a)].n + b[1].n)>>
                  \o SubSeq(b, 2, Len(b))
         ELSE a \o b

\* b"".join(parts[i..j])
RECURSIVE JoinFrom(_, _, _)
JoinFrom(parts, i, j) ==
    IF i > j THEN Empty
    ELSE IF i = j THEN parts[i]
    ELSE LET m == (i + j) \div 2 IN
         Cat(JoinFrom(parts, i, m), JoinFrom(parts, m + 1, j))

Join(parts) == JoinFrom(parts, 1, Len(parts))

\* the byte string whose bytes are the given codes
Lit(codes) == Join([i \in 1..Len(codes) |-> <<Run(codes[i], 1)>>])

\* the number of bytes in the runs i..j of s
RECURSIVE BLenFrom(_, _, _)
BLenFrom(s, i, j) ==
    IF i > j THEN 0
    ELSE IF i = j THEN s[i].n
    ELSE LET m == (i + j) \div 2 IN BLenFrom(s, i, m) + BLenFrom(s, m + 1, j)

\* len(s)
BLen(s) == BLenFrom(s, 1, Len(s))

\* the first run of s, among the runs i..j and with acc bytes before run i,
\* in which the k-th byte lies; run j + 1 if s ends before it
RECURSIVE Seek(_, _, _, _, _)
Seek(s, i, j, acc, k) ==
    IF i > j THEN [i |-> i, before |-> acc]
    ELSE IF i = j
    THEN IF acc + s[i].n >= k THEN [i |-> i, before |-> acc]
         ELSE [i |-> i + 1, before |-> acc + s[i].n]
    ELSE LET m    == (i + j) \div 2
             left == BLenFrom(s, i, m)
         IN  IF acc + left >= k THEN Seek(s, i, m, acc, k)
             ELSE Seek(s, m + 1, j, acc + left, k)

\* s[:k]
Take(s, k) ==
    IF k <= 0 THEN Empty
    ELSE LET r == Seek(s, 1, Len(s), 0, k) IN
         IF r.i > Len(s) THEN s
         ELSE SubSeq(s, 1, r.i - 1) \o <<Run(s[r.i].b, k - r.before)>>

\* s[k:]
Drop(s, k) ==
    IF k <= 0 THEN s
    ELSE LET r == Seek(s, 1, Len(s), 0, k) IN
         IF r.i > Len(s) THEN Empty
         ELSE Rep(s[r.i].b, s[r.i].n - (k - r.before))
                  \o SubSeq(s, r.i + 1, Len(s))

\* index of the first run of s, from run i on, that carries byte b; 0 if none
FindRun(s, b, i) ==
    LET found == {j \in i..Len(s) : s[j].b = b} IN
    IF found = {} THEN 0
    ELSE CHOOSE j \in found : \A k \in found : j <= k

\* the plain sequence of the bytes of s
RECURSIVE Expand(_)
Expand(s) ==
    IF s = Empty THEN << >>
    ELSE [j \in 1..s[1].n |-> s[1].b] \o Expand(Tail(s))

\* bytes.lower()
LowerByte(b) == IF b >= 65 /\ b <= 90 THEN b + 32 ELSE b

\* s.startswith(prefix): the header name compared without .lower()
StartsWithCaseSensitive(s, prefix) ==
    /\ BLen(s) >= Len(prefix)
    /\ LET head == Expand(Take(s, Len(prefix))) IN
       \A j \in 1..Len(prefix) : head[j] = prefix[j]

\* s.lower().startswith(prefix), prefix a plain sequence of lower-case codes
LowerStartsWith(s, prefix) ==
    /\ BLen(s) >= Len(prefix)
    /\ LET head == Expand(Take(s, Len(prefix))) IN
       \A j \in 1..Len(prefix) : LowerByte(head[j]) = prefix[j]

\* the bytes bytes.strip() removes
WHITESPACE == {9, 10, 11, 12, 13, 32}

RECURSIVE LStrip(_)
LStrip(s) ==
    IF s = Empty THEN Empty
    ELSE IF s[1].b \in WHITESPACE THEN LStrip(Tail(s))
    ELSE s

RECURSIVE RStrip(_)
RStrip(s) ==
    IF s = Empty THEN Empty
    ELSE IF s[Len(s)].b \in WHITESPACE THEN RStrip(SubSeq(s, 1, Len(s) - 1))
    ELSE s

\* bytes.strip()
Strip(s) == RStrip(LStrip(s))

\* line.split(b":", 1)[1], for a line that holds a colon
AfterColon(s) ==
    LET i == FindRun(s, COLON, 1) IN
    Rep(COLON, s[i].n - 1) \o SubSeq(s, i + 1, Len(s))

---------------------------------------------------------------------------
(* int(value) on bytes: optional surrounding whitespace, an optional sign,  *)
(* then decimal digits, single underscores allowed between digits.         *)

IsDigit(b) == b >= 48 /\ b <= 57

RECURSIVE DigitsValue(_, _, _)
DigitsValue(d, i, acc) ==
    IF i > Len(d) THEN acc
    ELSE IF d[i] = 95 THEN DigitsValue(d, i + 1, acc)
    ELSE DigitsValue(d, i + 1, acc * 10 + (d[i] - 48))

\* int(value) giving 0 instead of raising ValueError
PyIntLenient(value) ==
    LET d    == Expand(Strip(value))
        sgn  == Len(d) > 0 /\ d[1] \in {43, 45}
        body == IF sgn THEN Tail(d) ELSE d
        wellFormed ==
            /\ Len(body) > 0
            /\ \A j \in 1..Len(body) : IsDigit(body[j]) \/ body[j] = 95
            /\ IsDigit(body[1])
            /\ IsDigit(body[Len(body)])
            /\ \A j \in 1..(Len(body) - 1) : ~(body[j] = 95 /\ body[j + 1] = 95)
    IN  IF ~wellFormed THEN [ok |-> TRUE, v |-> 0]
        ELSE [ok |-> TRUE,
              v  |-> IF sgn /\ d[1] = 45
                     THEN 0 - DigitsValue(body, 1, 0)
                     ELSE DigitsValue(body, 1, 0)]

\* [ok |-> FALSE] stands for ValueError
PyInt(value) ==
    LET d    == Expand(Strip(value))
        sgn  == Len(d) > 0 /\ d[1] \in {43, 45}
        body == IF sgn THEN Tail(d) ELSE d
        wellFormed ==
            /\ Len(body) > 0
            /\ \A j \in 1..Len(body) : IsDigit(body[j]) \/ body[j] = 95
            /\ IsDigit(body[1])
            /\ IsDigit(body[Len(body)])
            /\ \A j \in 1..(Len(body) - 1) : ~(body[j] = 95 /\ body[j + 1] = 95)
    IN  IF ~wellFormed THEN [ok |-> FALSE, v |-> 0]
        ELSE [ok |-> TRUE,
              v  |-> IF sgn /\ d[1] = 45
                     THEN 0 - DigitsValue(body, 1, 0)
                     ELSE DigitsValue(body, 1, 0)]

---------------------------------------------------------------------------
(* Framing (provider.py, SECTION: Framing)                                  *)

Max(a, b) == IF a >= b THEN a ELSE b
Min(a, b) == IF a <= b THEN a ELSE b

\* b"\r\n" and b"\n"
CRLF == <<Run(CR, 1), Run(LF, 1)>>
BARE_LF == <<Run(LF, 1)>>

\* b"content-length:"
CONTENT_LENGTH_PREFIX ==
    <<99, 111, 110, 116, 101, 110, 116, 45, 108, 101, 110, 103, 116, 104, 58>>

\* stream.readline(): the bytes up to and including the first b"\n", or all
\* that is left when no b"\n" follows (empty at end-of-stream)
ReadLine(s) ==
    LET i == FindRun(s, LF, 1) IN
    IF i = 0 THEN [line |-> s, rest |-> Empty]
    ELSE [line |-> SubSeq(s, 1, i - 1) \o <<Run(LF, 1)>>,
          rest |-> Rep(LF, s[i].n - 1) \o SubSeq(s, i + 1, Len(s))]

\* stream.read(k): k bytes, fewer only at end-of-stream
Read(s, k) == [data |-> Take(s, k), rest |-> Drop(s, k)]

\* content_length: None, or an int
NoLength == [some |-> FALSE, v |-> 0]
Length(n) == [some |-> TRUE, v |-> n]

\* What one read_frame call did: kind "frame" (payload returned), "none"
\* (None returned), "error" (FrameError(message, fatal) raised) or "drain"
\* (discard_bytes entered and not yet left); rest is the stream after the
\* reads made, declared the content_length in use, hdr the header bytes
\* counted, peak the size of the largest bytes object a read returned, asked
\* the largest size a read was asked for, drained the body bytes
\* discard_bytes consumed so far, requested the sum of the sizes
\* discard_bytes asked stream.read() for so far.
Outcome(kind, payload, message, fatal, rest, declared, hdr, peak, asked, drained) ==
    [kind |-> kind, payload |-> payload, message |-> message, fatal |-> fatal,
     rest |-> rest, declared |-> declared, hdr |-> hdr, peak |-> peak,
     asked |-> asked, drained |-> drained, requested |-> 0]

FrameError(message, fatal, rest, declared, hdr, peak) ==
    Outcome("error", Empty, message, fatal, rest, declared, hdr, peak, 0, 0)

\* the end of read_frame raising a recoverable error for a missing length
read_body_missing_recoverable(s, content_length, hdr, peak) ==
    IF ~content_length.some
    THEN FrameError("missing content length", FALSE, s, 0, hdr, peak)
    ELSE IF content_length.v <= 0
    THEN FrameError("invalid content length", TRUE, s, content_length.v, hdr, peak)
    ELSE IF content_length.v > MAX_BODY_BYTES
    THEN Outcome("drain", Empty, "", FALSE, s, content_length.v, hdr, peak, 0, 0)
    ELSE LET r == Read(s, content_length.v) IN
         IF BLen(r.data) # content_length.v
         THEN Outcome("error", Empty, "unexpected eof", TRUE, r.rest,
                      content_length.v, hdr, Max(peak, BLen(r.data)),
                      content_length.v, 0)
         ELSE Outcome("frame", r.data, "", FALSE, r.rest, content_length.v, hdr,
                      Max(peak, BLen(r.data)), content_length.v, 0)

\* the end of read_frame draining a body of MAX_BODY_BYTES bytes too
read_body_ceiling_inclusive(s, content_length, hdr, peak) ==
    IF ~content_length.some
    THEN FrameError("missing content length", TRUE, s, 0, hdr, peak)
    ELSE IF content_length.v <= 0
    THEN FrameError("invalid content length", TRUE, s, content_length.v, hdr, peak)
    ELSE IF content_length.v >= MAX_BODY_BYTES
    THEN Outcome("drain", Empty, "", FALSE, s, content_length.v, hdr, peak, 0, 0)
    ELSE LET r == Read(s, content_length.v) IN
         IF BLen(r.data) # content_length.v
         THEN Outcome("error", Empty, "unexpected eof", TRUE, r.rest,
                      content_length.v, hdr, Max(peak, BLen(r.data)),
                      content_length.v, 0)
         ELSE Outcome("frame", r.data, "", FALSE, r.rest, content_length.v, hdr,
                      Max(peak, BLen(r.data)), content_length.v, 0)

\* read_frame, from the end of the header loop up to the call of
\* discard_bytes or the return
read_body(s, content_length, hdr, peak) ==
    IF ~content_length.some
    THEN FrameError("missing content length", TRUE, s, 0, hdr, peak)
    ELSE IF content_length.v <= 0
    THEN FrameError("invalid content length", TRUE, s, content_length.v, hdr, peak)
    ELSE IF content_length.v > MAX_BODY_BYTES
    THEN Outcome("drain", Empty, "", FALSE, s, content_length.v, hdr, peak, 0, 0)
    ELSE LET r == Read(s, content_length.v) IN
         IF BLen(r.data) # content_length.v
         THEN Outcome("error", Empty, "unexpected eof", TRUE, r.rest,
                      content_length.v, hdr, Max(peak, BLen(r.data)),
                      content_length.v, 0)
         ELSE Outcome("frame", r.data, "", FALSE, r.rest, content_length.v, hdr,
                      Max(peak, BLen(r.data)), content_length.v, 0)

\* read_frame's header loop, then the body
RECURSIVE header_loop(_, _, _, _)
header_loop(s, content_length, header_bytes, peak) ==
    LET rl   == ReadLine(s)
        line == rl.line
        hb   == header_bytes + BLen(line)
        pk   == Max(peak, BLen(line))
    IN  IF line = Empty
        THEN Outcome("none", Empty, "", FALSE, rl.rest, 0, header_bytes, peak, 0, 0)
        ELSE IF hb > MAX_HEADER_BYTES
        THEN FrameError("headers too large", TRUE, rl.rest, 0, hb, pk)
        ELSE IF line \in {CRLF, BARE_LF}
        THEN read_body(rl.rest, content_length, hb, pk)
        ELSE IF LowerStartsWith(line, CONTENT_LENGTH_PREFIX)
        THEN LET parsed == PyInt(Strip(AfterColon(line))) IN
             IF ~parsed.ok
             THEN FrameError("invalid content length", TRUE, rl.rest, 0, hb, pk)
             ELSE header_loop(rl.rest, Length(parsed.v), hb, pk)
        ELSE header_loop(rl.rest, content_length, hb, pk)

\* read_frame(stream) up to its return, its raise, or its call of
\* discard_bytes
read_frame(s) == header_loop(s, NoLength, 0, 0)

\* discard_bytes reading a full chunk each turn, whatever remains
discard_bytes_full_chunks(d) ==
    LET remaining == d.declared - d.drained
        want      == DISCARD_CHUNK_BYTES
        r         == Read(d.rest, want)
        got       == BLen(r.data)
        peak      == Max(d.peak, got)
        asked     == Max(d.asked, want)
    IN  IF got = 0
        THEN Outcome("error", Empty, "unexpected eof", TRUE, r.rest, d.declared,
                     d.hdr, peak, asked, d.drained)
        ELSE IF remaining - got > 0
        THEN Outcome("drain", Empty, "", FALSE, r.rest, d.declared, d.hdr, peak,
                     asked, d.drained + got)
        ELSE Outcome("error", Empty, "payload too large", FALSE, r.rest,
                     d.declared, d.hdr, peak, asked, d.drained + got)

\* discard_bytes leaving its loop at end-of-stream instead of raising
discard_bytes_break_at_eof(d) ==
    LET remaining == d.declared - d.drained
        want      == Min(remaining, DISCARD_CHUNK_BYTES)
        r         == Read(d.rest, want)
        got       == BLen(r.data)
        peak      == Max(d.peak, got)
        asked     == Max(d.asked, want)
    IN  IF got = 0 \/ remaining - got <= 0
        THEN Outcome("error", Empty, "payload too large", FALSE, r.rest,
                     d.declared, d.hdr, peak, asked, d.drained + got)
        ELSE Outcome("drain", Empty, "", FALSE, r.rest, d.declared, d.hdr, peak,
                     asked, d.drained + got)

\* discard_bytes asking for all that remains in one read
discard_bytes_whole(d) ==
    LET remaining == d.declared - d.drained
        want      == remaining
        r         == Read(d.rest, want)
        got       == BLen(r.data)
        peak      == Max(d.peak, got)
        asked     == Max(d.asked, want)
        turn      ==
            IF got = 0
            THEN Outcome("error", Empty, "unexpected eof", TRUE, r.rest, d.declared,
                         d.hdr, peak, asked, d.drained)
            ELSE IF remaining - got > 0
            THEN Outcome("drain", Empty, "", FALSE, r.rest, d.declared, d.hdr, peak,
                         asked, d.drained + got)
            ELSE Outcome("error", Empty, "payload too large", FALSE, r.rest,
                         d.declared, d.hdr, peak, asked, d.drained + got)
    IN  [turn EXCEPT !.requested = d.requested + want]

\* One turn of the while loop of discard_bytes(stream, count), d the outcome
\* of kind "drain" that holds the loop's state (remaining is declared -
\* drained).  The turn that finds nothing to read raises "unexpected eof"; the
\* turn that brings remaining to 0 leaves the loop, and read_frame raises
\* "payload too large".
discard_bytes(d) ==
    LET remaining == d.declared - d.drained
        want      == Min(remaining, DISCARD_CHUNK_BYTES)
        r         == Read(d.rest, want)
        got       == BLen(r.data)
        peak      == Max(d.peak, got)
        asked     == Max(d.asked, want)
        turn      ==
            IF got = 0
            THEN Outcome("error", Empty, "unexpected eof", TRUE, r.rest, d.declared,
                         d.hdr, peak, asked, d.drained)
            ELSE IF remaining - got > 0
            THEN Outcome("drain", Empty, "", FALSE, r.rest, d.declared, d.hdr, peak,
                         asked, d.drained + got)
            ELSE Outcome("error", Empty, "payload too large", FALSE, r.rest,
                         d.declared, d.hdr, peak, asked, d.drained + got)
    IN  [turn EXCEPT !.requested = d.requested + want]

---------------------------------------------------------------------------
(* Input streams for the frame codec: a header block built from a small     *)
(* catalogue of header lines, a terminator, a body and an optional          *)
(* well-formed frame behind it.                                            *)

MaxHeaderLines == 2
MaxCalls == 2

RECURSIVE IntToCodes(_)
IntToCodes(n) ==
    IF n < 10 THEN <<48 + n>>
    ELSE IntToCodes(n \div 10) \o <<48 + (n % 10)>>

\* b"Content-Length: ", b"content-length:", b"CONTENT-LENGTH: "
NAME_CAPITALISED ==
    Lit(<<67, 111, 110, 116, 101, 110, 116, 45, 76, 101, 110, 103, 116, 104, 58, 32>>)
NAME_LOWER ==
    Lit(<<99, 111, 110, 116, 101, 110, 116, 45, 108, 101, 110, 103, 116, 104, 58>>)
NAME_UPPER ==
    Lit(<<67, 79, 78, 84, 69, 78, 84, 45, 76, 69, 78, 71, 84, 72, 58, 32>>)

\* b"X-Test: 1\r\n"
X_TEST_LINE == Cat(Lit(<<88, 45, 84, 101, 115, 116, 58, 32, 49>>), CRLF)

\* b"X-Pad: " + b"a" * n + b"\r\n"
PadLine(n) == Cat(Lit(<<88, 45, 80, 97, 100, 58, 32>>), Cat(Rep(97, n), CRLF))

\* a pad line that fills the header ceiling exactly together with
\* b"Content-Length: 5\r\n" and the blank line b"\r\n"
PAD_FILL == MAX_HEADER_BYTES - 19 - 2 - 9

\* a single header line longer than both ceilings together
FLOOD_FILL == 2 * MAX_BODY_BYTES

HeaderKinds ==
    {"CL5", "cl5", "CLmax", "CLover", "CL0", "CLneg", "CLabc", "XTest", "Pad",
     "PadFull", "Flood"}

HeaderLine(kind) ==
    CASE kind = "CL5"    -> Cat(NAME_CAPITALISED, Cat(Lit(IntToCodes(5)), CRLF))
      [] kind = "cl5"    -> Cat(NAME_LOWER, Cat(Lit(IntToCodes(5)), BARE_LF))
      [] kind = "CLmax"  -> Cat(NAME_UPPER, Cat(Lit(IntToCodes(MAX_BODY_BYTES)), CRLF))
      [] kind = "CLover" -> Cat(NAME_CAPITALISED,
                                Cat(Lit(IntToCodes(MAX_BODY_BYTES + 1)), CRLF))
      [] kind = "CL0"    -> Cat(NAME_CAPITALISED, Cat(Lit(IntToCodes(0)), CRLF))
      [] kind = "CLneg"  -> Cat(NAME_CAPITALISED, Cat(Lit(<<45, 53>>), CRLF))
      [] kind = "CLabc"  -> Cat(NAME_CAPITALISED, Cat(Lit(<<97, 98, 99>>), CRLF))
      [] kind = "XTest"  -> X_TEST_LINE
      [] kind = "Pad"    -> PadLine(PAD_FILL)
      \* with b"Content-Length: 5\r\n" the header lines alone fill the ceiling
      [] kind = "PadFull" -> PadLine(PAD_FILL + 2)
      [] kind = "Flood"  -> PadLine(FLOOD_FILL)

\* what the line was built to say: no Content-Length header, a number, or a
\* Content-Length header that is no number
IsContentLength(kind) == kind \in {"CL5", "cl5", "CLmax", "CLover", "CL0", "CLneg", "CLabc"}
IsNumeric(kind) == kind \in {"CL5", "cl5", "CLmax", "CLover", "CL0", "CLneg"}
Declared(kind) ==
    CASE kind \in {"CL5", "cl5"} -> 5
      [] kind = "CLmax"  -> MAX_BODY_BYTES
      [] kind = "CLover" -> MAX_BODY_BYTES + 1
      [] kind = "CL0"    -> 0
      [] kind = "CLneg"  -> 0 - 5
      [] OTHER           -> 0

Terminators == {"crlf", "lf", "eof"}

Terminator(term) ==
    CASE term = "crlf" -> CRLF
      [] term = "lf"   -> BARE_LF
      [] term = "eof"  -> Empty

BodyLens == {0, 4, 5, MAX_BODY_BYTES - 1, MAX_BODY_BYTES, MAX_BODY_BYTES + 1}

\* n body bytes: b"hello\n" followed by b"x"s, cut to n
BodyBytes(n) == Take(Cat(Lit(<<104, 101, 108, 108, 111, 10>>), Rep(120, n)), n)

\* b"Content-Length: 2\r\n\r\nok"
TAIL_PAYLOAD == Lit(<<111, 107>>)
TAIL_FRAME ==
    Cat(NAME_CAPITALISED, Cat(Lit(IntToCodes(2)), Cat(CRLF, Cat(CRLF, TAIL_PAYLOAD))))

SeqsUpTo(S, n) == UNION {[1..k -> S] : k \in 0..n}

RECURSIVE HeaderBlockFrom(_, _)
HeaderBlockFrom(lines, i) ==
    IF i > Len(lines) THEN Empty
    ELSE Cat(HeaderLine(lines[i]), HeaderBlockFrom(lines, i + 1))

HeaderBlock(p) == Cat(HeaderBlockFrom(p.lines, 1), Terminator(p.term))

TailBytes(p) == IF p.tail THEN TAIL_FRAME ELSE Empty

PlanBytes(p) == Cat(HeaderBlock(p), Cat(BodyBytes(p.body), TailBytes(p)))

FramePlans ==
    {p \in [lines : SeqsUpTo(HeaderKinds, MaxHeaderLines), term : Terminators,
            body : BodyLens, tail : BOOLEAN] :
        p.term = "eof" => (p.body = 0 /\ ~p.tail)}

NoValue == [t |-> "none"]

InitFrame ==
    /\ plan \in FramePlans
    /\ stdin = PlanBytes(plan)
    /\ stdout = << >>
    /\ sent = << >>
    /\ pc = "codec"
    /\ calls = << >>
    /\ request = NoValue
    /\ response = NoValue

\* a call of read_frame on the input stream, up to its end or to its call of
\* discard_bytes
CallReadFrame ==
    /\ pc = "codec"
    /\ Len(calls) < MaxCalls
    /\ LET r == read_frame(stdin) IN
       /\ calls' = Append(calls, r)
       /\ stdin' = r.rest
       /\ pc' = IF r.kind = "drain" THEN "codec_drain" ELSE "codec"
    /\ UNCHANGED <<stdout, sent, plan, request, response>>

\* one turn of discard_bytes inside that call
CodecDiscard ==
    /\ pc = "codec_drain"
    /\ LET r == discard_bytes(calls[Len(calls)]) IN
       /\ calls' = [calls EXCEPT ![Len(calls)] = r]
       /\ stdin' = r.rest
       /\ pc' = IF r.kind = "drain" THEN "codec_drain" ELSE "codec"
    /\ UNCHANGED <<stdout, sent, plan, request, response>>

NextFrame == CallReadFrame \/ CodecDiscard

SpecFrame == InitFrame /\ [][NextFrame]_vars

---------------------------------------------------------------------------
(* What the input of the frame codec was built to be                        *)

\* the lines of the block that are Content-Length headers
LengthLines(p) == {i \in 1..Len(p.lines) : IsContentLength(p.lines[i])}

HeaderSize(p) == BLen(HeaderBlock(p))

\* the bytes that follow the header block
AfterHeaders(p) == Cat(BodyBytes(p.body), TailBytes(p))

DeclaredValues == {Declared(k) : k \in {h \in HeaderKinds : IsNumeric(h)}}

\* a header block closed by a blank line, within the header ceiling, whose
\* Content-Length headers (at least one) all give the number n
Carries(p, n) ==
    /\ p.term # "eof"
    /\ HeaderSize(p) <= MAX_HEADER_BYTES
    /\ LengthLines(p) # {}
    /\ \A i \in LengthLines(p) : IsNumeric(p.lines[i]) /\ Declared(p.lines[i]) = n

\* the stream as the i-th call of read_frame found it
Before(i) == IF i = 1 THEN PlanBytes(plan) ELSE calls[i - 1].rest

\* the i-th call of read_frame has ended
Ended(i) == i <= Len(calls) /\ calls[i].kind # "drain"

---------------------------------------------------------------------------
(* Claims on the frame codec, checked under SpecFrame                       *)

\* C1: a stream that starts with a valid header block carrying
\* Content-Length: N, 1 <= N <= 1 MiB, then a blank line (CRLF or bare LF),
\* then at least N bytes: read_frame returns exactly the first N of those
\* bytes and leaves the stream on the byte right after them.
C1_FramePayloadExact ==
    \A n \in DeclaredValues :
        ( /\ Carries(plan, n)
          /\ n >= 1 /\ n <= MAX_BODY_BYTES
          /\ BLen(AfterHeaders(plan)) >= n
          /\ Ended(1) )
        => /\ calls[1].kind = "frame"
           /\ calls[1].payload = Take(AfterHeaders(plan), n)
           /\ BLen(calls[1].payload) = n
           /\ calls[1].rest = Drop(AfterHeaders(plan), n)

\* C1 witness: a 5-byte frame closed by a bare LF, with more than 5 bytes
\* behind the blank line, has been returned
C1_Witness ==
    /\ Len(calls) >= 1
    /\ Carries(plan, 5)
    /\ plan.term = "lf"
    /\ plan.body > 5
    /\ calls[1].kind = "frame"
    /\ calls[1].rest # Empty

\* C2: a declared length N > 1 MiB with at least N bytes behind the blank
\* line: read_frame consumes exactly N body bytes and raises the recoverable
\* FrameError "payload too large"; a well-formed frame placed directly after
\* those N bytes is returned intact by the next call.
C2_OversizeDrainedAndRealigned ==
    \A n \in DeclaredValues :
        ( /\ Carries(plan, n)
          /\ n > MAX_BODY_BYTES
          /\ BLen(AfterHeaders(plan)) >= n
          /\ Ended(1) )
        => /\ calls[1].kind = "error"
           /\ calls[1].message = "payload too large"
           /\ ~calls[1].fatal
           /\ calls[1].drained = n
           /\ calls[1].rest = Drop(AfterHeaders(plan), n)
           /\ (plan.body = n /\ plan.tail /\ Ended(2))
              => /\ calls[2].kind = "frame"
                 /\ calls[2].payload = TAIL_PAYLOAD
                 /\ calls[2].rest = Empty

\* C2 witness: the frame behind a drained oversized body has been returned
C2_Witness ==
    /\ Len(calls) = 2
    /\ Carries(plan, MAX_BODY_BYTES + 1)
    /\ plan.body = MAX_BODY_BYTES + 1
    /\ plan.tail
    /\ calls[1].message = "payload too large"
    /\ calls[2].kind = "frame"

\* C3: the input bytes held in memory for one message never exceed 8 KiB of
\* header bytes plus 1 MiB of body bytes, whatever read of read_frame
\* (header-line reads included) brought them in.
C3_MemoryBounded ==
    \A i \in 1..Len(calls) :
        calls[i].peak <= MAX_HEADER_BYTES + MAX_BODY_BYTES

\* C5: read_frame returns None exactly when end-of-stream is reached before
\* any header byte of a frame has been read.
C5_NoneOnlyAtCleanEof ==
    \A i \in 1..Len(calls) :
        (calls[i].kind = "none") <=> (Before(i) = Empty)

\* C6: a stream that ends after a header block declaring Content-Length: N
\* and before N body bytes are delivered: read_frame raises the fatal
\* FrameError "unexpected eof" and returns no payload, for N <= 1 MiB (direct
\* read) and for N > 1 MiB (the stream ends during the drain).
C6_ShortBodyIsFatalEof ==
    \A n \in DeclaredValues :
        ( /\ Carries(plan, n)
          /\ n >= 1
          /\ BLen(AfterHeaders(plan)) < n
          /\ Ended(1) )
        => /\ calls[1].kind = "error"
           /\ calls[1].message = "unexpected eof"
           /\ calls[1].fatal
           /\ calls[1].payload = Empty

\* C6 witness: an oversized body ended after part of it was drained
C6_Witness ==
    /\ Ended(1)
    /\ Carries(plan, MAX_BODY_BYTES + 1)
    /\ BLen(AfterHeaders(plan)) < MAX_BODY_BYTES + 1
    /\ calls[1].drained > DISCARD_CHUNK_BYTES
    /\ calls[1].message = "unexpected eof"

\* the bytes of the first i header lines of the block
LinesSize(p, i) == BLen(HeaderBlockFrom(SubSeq(p.lines, 1, i), 1))

\* the header lines that bring the cumulative header bytes above the ceiling
\* while every line read before them parsed
Overflowing(p) ==
    {i \in 1..Len(p.lines) :
        /\ LinesSize(p, i) > MAX_HEADER_BYTES
        /\ \A j \in 1..(i - 1) : IsContentLength(p.lines[j]) => IsNumeric(p.lines[j])}

\* C24: read_frame raises the fatal FrameError "headers too large" whenever
\* the bytes of the header lines read exceed 8 KiB before the blank line,
\* and never for a block closed by a blank line whose header lines before
\* that blank line total at most 8 KiB.
C24_HeaderCeiling ==
    Ended(1) =>
        /\ Overflowing(plan) # {}
              => /\ calls[1].kind = "error"
                 /\ calls[1].message = "headers too large"
                 /\ calls[1].fatal
        /\ (plan.term # "eof" /\ LinesSize(plan, Len(plan.lines)) <= MAX_HEADER_BYTES)
              => calls[1].message # "headers too large"

\* the block is closed by a blank line that read_frame reaches: the bytes it
\* counts up to and including that line stay within the header ceiling
ReachesBlankLine(p) == p.term # "eof" /\ HeaderSize(p) <= MAX_HEADER_BYTES

\* C25: a header block that reaches its blank line without any
\* Content-Length header: read_frame raises the fatal FrameError "missing
\* content length" and returns no payload, whatever the other headers and
\* the body bytes are.
C25_MissingContentLength ==
    (ReachesBlankLine(plan) /\ LengthLines(plan) = {} /\ Ended(1))
        => /\ calls[1].kind = "error"
           /\ calls[1].message = "missing content length"
           /\ calls[1].fatal
           /\ calls[1].payload = Empty

\* C25 witness: other headers and a body were there, and the error was raised
C25_Witness ==
    /\ Ended(1)
    /\ ReachesBlankLine(plan)
    /\ plan.lines = <<"XTest", "Pad">>
    /\ plan.body = 5
    /\ calls[1].message = "missing content length"

\* a Content-Length header whose value is no number, zero or negative
BadLength(kind) ==
    IsContentLength(kind) /\ (~IsNumeric(kind) \/ Declared(kind) <= 0)

\* C26: a Content-Length header whose value is non-numeric, zero or negative
\* always makes read_frame raise the fatal FrameError "invalid content
\* length" (for a block that read_frame reads up to its blank line), and no
\* frame with an empty body is ever returned.
C26_InvalidContentLength ==
    /\ ( /\ Ended(1)
         /\ ReachesBlankLine(plan)
         /\ \E i \in LengthLines(plan) : BadLength(plan.lines[i]) )
        => /\ calls[1].kind = "error"
           /\ calls[1].message = "invalid content length"
           /\ calls[1].fatal
    /\ \A i \in 1..Len(calls) :
          calls[i].kind = "frame" => calls[i].payload # Empty

\* the Content-Length headers of the block alone, in their order, the name
\* written Content-Length
RECURSIVE LengthHeadersFrom(_, _)
LengthHeadersFrom(lines, i) ==
    IF i > Len(lines) THEN << >>
    ELSE IF ~IsContentLength(lines[i]) THEN LengthHeadersFrom(lines, i + 1)
    ELSE <<IF lines[i] = "cl5" THEN "CL5" ELSE lines[i]>>
             \o LengthHeadersFrom(lines, i + 1)

\* the plan with every other header line removed
Bare(p) == [p EXCEPT !.lines = LengthHeadersFrom(p.lines, 1)]

\* C27: read_frame recognises the Content-Length name in any letter case and
\* ignores every other header line: for a block whose header lines total at
\* most 8 KiB, the first call ends as it does on the block that keeps the
\* Content-Length headers alone (same payload, same error; for an oversized
\* body, the same declared length over the same bytes to drain).
C27_OtherHeadersIgnored ==
    (Len(calls) >= 1 /\ LinesSize(plan, Len(plan.lines)) <= MAX_HEADER_BYTES) =>
        LET bare == read_frame(PlanBytes(Bare(plan))) IN
        IF bare.kind = "drain"
        THEN /\ calls[1].declared = bare.declared
             /\ calls[1].drained + BLen(calls[1].rest) = BLen(bare.rest)
             /\ calls[1].message \in {"", "payload too large", "unexpected eof"}
        ELSE /\ calls[1].kind = bare.kind
             /\ calls[1].payload = bare.payload
             /\ calls[1].message = bare.message
             /\ calls[1].fatal = bare.fatal

\* the i-th call of read_frame entered discard_bytes
Draining(i) == calls[i].declared > MAX_BODY_BYTES

\* C33 as stated: while an oversized payload is drained, discard_bytes never
\* asks for nor holds more than 8 KiB at a time, and the sizes it asks for
\* never add up to more than the declared length.
C33_DrainRequestsBounded ==
    \A i \in 1..Len(calls) :
        Draining(i) =>
            /\ calls[i].asked <= DISCARD_CHUNK_BYTES
            /\ calls[i].peak <= DISCARD_CHUNK_BYTES
            /\ calls[i].requested <= calls[i].declared

\* C33, amended: while an oversized payload is drained, discard_bytes never
\* asks for nor holds more than 8 KiB at a time and never takes more bytes
\* in total than the declared length; the sizes it asks for add up to the
\* declared length when the drain completes, and to less than the declared
\* length plus 8 KiB when the stream ends during the drain.
C33_DrainTakesBounded ==
    \A i \in 1..Len(calls) :
        Draining(i) =>
            /\ calls[i].asked <= DISCARD_CHUNK_BYTES
            /\ calls[i].peak <= DISCARD_CHUNK_BYTES
            /\ calls[i].drained <= calls[i].declared
            /\ calls[i].requested < calls[i].declared + DISCARD_CHUNK_BYTES
            /\ calls[i].message = "payload too large" =>
                  /\ calls[i].drained = calls[i].declared
                  /\ calls[i].requested = calls[i].declared

\* C33 witness: a body of 1 MiB + 1 bytes was drained whole, 8 KiB at a time
C33_Witness ==
    /\ Ended(1)
    /\ Draining(1)
    /\ calls[1].message = "payload too large"
    /\ calls[1].asked = DISCARD_CHUNK_BYTES
    /\ calls[1].drained = MAX_BODY_BYTES + 1
    /\ calls[1].requested = MAX_BODY_BYTES + 1

\* C36: a frame declaring exactly 1 MiB (1048576 bytes) is read in one read
\* and returned as a normal frame, and a frame declaring 1 MiB + 1 bytes is
\* drained and rejected with the recoverable "payload too large".
C36_BodyCeiling ==
    Ended(1) =>
        /\ (Carries(plan, MAX_BODY_BYTES) /\ BLen(AfterHeaders(plan)) >= MAX_BODY_BYTES)
              => /\ calls[1].kind = "frame"
                 /\ BLen(calls[1].payload) = MAX_BODY_BYTES
                 /\ calls[1].payload = Take(AfterHeaders(plan), MAX_BODY_BYTES)
                 /\ calls[1].drained = 0
        /\ (Carries(plan, MAX_BODY_BYTES + 1) /\ BLen(AfterHeaders(plan)) >= MAX_BODY_BYTES + 1)
              => /\ calls[1].kind = "error"
                 /\ calls[1].message = "payload too large"
                 /\ ~calls[1].fatal
                 /\ calls[1].drained = MAX_BODY_BYTES + 1

\* C36 witness: a frame of exactly 1048576 bytes has been returned
C36_Witness ==
    /\ Ended(1)
    /\ Carries(plan, MAX_BODY_BYTES)
    /\ plan.body = MAX_BODY_BYTES
    /\ MAX_BODY_BYTES = 1048576
    /\ calls[1].kind = "frame"
    /\ BLen(calls[1].payload) = 1048576

\* the last Content-Length header of a block that holds one
LastLength(p) ==
    p.lines[CHOOSE i \in LengthLines(p) : \A j \in LengthLines(p) : j <= i]

\* C37: of several Content-Length headers in a block, all numeric,
\* read_frame uses the last one: the call ends as it does on the block with
\* that header alone.  A non-numeric Content-Length header raises the fatal
\* "invalid content length" at once, with the lines behind it unread, even
\* when a later header of the block is valid.
C37_LastLengthWins ==
    Len(calls) >= 1 =>
        /\ ( /\ ReachesBlankLine(plan)
             /\ Cardinality(LengthLines(plan)) >= 2
             /\ \A i \in LengthLines(plan) : IsNumeric(plan.lines[i]) )
            => LET only == read_frame(PlanBytes([plan EXCEPT !.lines = <<LastLength(plan)>>]))
               IN  /\ calls[1].declared = Declared(LastLength(plan))
                   /\ IF only.kind = "drain"
                      THEN /\ calls[1].drained + BLen(calls[1].rest) = BLen(only.rest)
                           /\ calls[1].message \in {"", "payload too large", "unexpected eof"}
                      ELSE /\ calls[1].kind = only.kind
                           /\ calls[1].payload = only.payload
                           /\ calls[1].message = only.message
                           /\ calls[1].fatal = only.fatal
        /\ \A j \in LengthLines(plan) :
              ( /\ ~IsNumeric(plan.lines[j])
                /\ \A i \in LengthLines(plan) : i < j => IsNumeric(plan.lines[i])
                /\ LinesSize(plan, j) <= MAX_HEADER_BYTES )
              => /\ calls[1].kind = "error"
                 /\ calls[1].message = "invalid content length"
                 /\ calls[1].fatal
                 /\ calls[1].rest = Drop(PlanBytes(plan), LinesSize(plan, j))

\* C37 witness: behind Content-Length: 1048577 and content-length:5, the
\* 5-byte frame has been returned
C37_Witness ==
    /\ Ended(1)
    /\ plan.lines = <<"CLover", "cl5">>
    /\ plan.term = "crlf"
    /\ plan.body = 5
    /\ calls[1].kind = "frame"
    /\ BLen(calls[1].payload) = 5
    /\ calls[1].declared = 5

---------------------------------------------------------------------------
(* JSON values, as json.loads returns them and json.dumps takes them: each  *)
(* value carries its type t.  A dict is a function from its keys; Python's  *)
(* None is the JSON null.                                                   *)

JNull == [t |-> "null"]
JBool(b) == [t |-> "bool", b |-> b]
JInt(i) == [t |-> "int", i |-> i]
JStr(s) == [t |-> "str", s |-> s]
JArr(a) == [t |-> "arr", a |-> a]
JObj(o) == [t |-> "obj", o |-> o]

\* the str of n copies of the ASCII character with code c
JRep(c, n) == [t |-> "rep", c |-> c, n |-> n]
EmptyObj == JObj(<< >>)

\* an exception that leaves the function
Raise(exc) == [t |-> "raise", exc |-> exc]
Raised(v) == v.t = "raise"

\* isinstance(v, dict)
IsDict(v) == v.t = "obj"

\* d.get(key)
Get(d, key) == IF key \in DOMAIN d.o THEN d.o[key] ELSE JNull

\* bool(v)
Truthy(v) ==
    CASE v.t = "null" -> FALSE
      [] v.t = "bool" -> v.b
      [] v.t = "int"  -> v.i # 0
      [] v.t = "str"  -> v.s # ""
      [] v.t = "rep"  -> v.n > 0
      [] v.t = "arr"  -> Len(v.a) > 0
      [] v.t = "obj"  -> DOMAIN v.o # {}

\* the strings of the model that hold "value" as a substring
HOLDING_VALUE == {"value", "my value"}

\* key in container
Contains(container, key) ==
    CASE container.t = "obj" -> key \in DOMAIN container.o
      [] container.t = "str" -> container.s \in HOLDING_VALUE
      [] container.t = "arr" -> \E j \in 1..Len(container.a) : container.a[j] = JStr(key)

\* the types "in" accepts on its right: the others raise TypeError
IsContainer(v) == v.t \in {"obj", "str", "arr"}

---------------------------------------------------------------------------
(* JSON-RPC output (provider.py, SECTION: JSON-RPC Output)                  *)

\* build_error_response with a null result member besides the error
build_error_response_with_result(request_id, code, message) ==
    JObj([jsonrpc |-> JStr("2.0"),
          id      |-> request_id,
          result  |-> JNull,
          error   |-> JObj([code |-> JInt(code), message |-> JStr(message)])])

build_error_response(request_id, code, message) ==
    JObj([jsonrpc |-> JStr("2.0"),
          id      |-> request_id,
          error   |-> JObj([code |-> JInt(code), message |-> JStr(message)])])

TOOL_LIST_RESULT ==
    JObj([tools |-> JArr(<<
        JObj([name         |-> JStr("evidence_query"),
              description  |-> JStr("Resolve a Decision Gate evidence query."),
              input_schema |-> JObj([type |-> JStr("object")])]) >>)])

---------------------------------------------------------------------------
(* Evidence logic (provider.py, SECTION: Evidence Logic)                    *)

\* handle_evidence_query reporting the forced failure beside the value
handle_evidence_query_error_beside_value(query, context) ==
    LET given  == Get(query, "params")
        params == IF Truthy(given) THEN given ELSE EmptyObj
    IN  IF ~IsContainer(params) THEN Raise("TypeError")
        ELSE IF ~Contains(params, "value")
        THEN JObj([error |-> JStr("params.value is required")])
        ELSE IF ~IsDict(params) THEN Raise("AttributeError")
        ELSE JObj([value |-> JObj([kind  |-> JStr("json"),
                                   value |-> params.o["value"]]),
                   error |-> IF Get(params, "value") = JStr("error")
                             THEN JStr("forced error") ELSE JNull])

handle_evidence_query(query, context) ==
    LET given  == Get(query, "params")
        params == IF Truthy(given) THEN given ELSE EmptyObj
    IN  IF ~IsContainer(params) THEN Raise("TypeError")
        ELSE IF ~Contains(params, "value")
        THEN JObj([error |-> JStr("params.value is required")])
        ELSE IF ~IsDict(params) THEN Raise("AttributeError")
        ELSE IF Get(params, "value") = JStr("error")
        THEN JObj([error |-> JStr("forced error")])
        ELSE JObj([value           |-> JObj([kind  |-> JStr("json"),
                                             value |-> params.o["value"]]),
                   lane            |-> JStr("verified"),
                   error           |-> JNull,
                   evidence_hash   |-> JNull,
                   evidence_ref    |-> JNull,
                   evidence_anchor |-> JNull,
                   signature       |-> JNull,
                   content_type    |-> JStr("application/json")])

\* handle_tool_call with the EvidenceResult returned as the result itself,
\* not wrapped as content
tool_call_result_unwrapped(req, query, context) ==
    LET result == handle_evidence_query(query, context) IN
    IF Raised(result) THEN result
    ELSE LET error == Get(result, "error") IN
         IF Truthy(error)
         THEN build_error_response(Get(req, "id"), 0 - 32000, error.s)
         ELSE JObj([jsonrpc |-> JStr("2.0"),
                    id      |-> Get(req, "id"),
                    result  |-> result])

\* handle_tool_call, from the call of handle_evidence_query on
tool_call_result(req, query, context) ==
    LET result == handle_evidence_query(query, context) IN
    IF Raised(result) THEN result
    ELSE LET error == Get(result, "error") IN
         IF Truthy(error)
         THEN build_error_response(Get(req, "id"), 0 - 32000, error.s)
         ELSE JObj([jsonrpc |-> JStr("2.0"),
                    id      |-> Get(req, "id"),
                    result  |-> JObj([content |-> JArr(<<
                                   JObj([type |-> JStr("json"), json |-> result]) >>)])])

\* handle_tool_call with the check of params.name left out
handle_tool_call_any_name(req) ==
    LET params == Get(req, "params") IN
    IF ~IsDict(params)
    THEN build_error_response(Get(req, "id"), 0 - 32602, "invalid tool params")
    ELSE LET arguments == Get(params, "arguments") IN
         IF ~IsDict(arguments)
         THEN build_error_response(Get(req, "id"), 0 - 32602, "invalid tool params")
         ELSE LET query   == Get(arguments, "query")
                  context == Get(arguments, "context")
              IN  IF ~IsDict(query) \/ ~IsDict(context)
                  THEN build_error_response(Get(req, "id"), 0 - 32602,
                                            "missing query or context")
                  ELSE tool_call_result(req, query, context)

\* handle_tool_call answering a missing query or context with the id null
handle_tool_call_null_id(req) ==
    LET params == Get(req, "params") IN
    IF ~IsDict(params)
    THEN build_error_response(Get(req, "id"), 0 - 32602, "invalid tool params")
    ELSE IF Get(params, "name") # JStr("evidence_query")
    THEN build_error_response(Get(req, "id"), 0 - 32602, "invalid tool params")
    ELSE LET arguments == Get(params, "arguments") IN
         IF ~IsDict(arguments)
         THEN build_error_response(Get(req, "id"), 0 - 32602, "invalid tool params")
         ELSE LET query   == Get(arguments, "query")
                  context == Get(arguments, "context")
              IN  IF ~IsDict(query) \/ ~IsDict(context)
                  THEN build_error_response(JNull, 0 - 32602,
                                            "missing query or context")
                  ELSE tool_call_result(req, query, context)

handle_tool_call(req) ==
    LET params == Get(req, "params") IN
    IF ~IsDict(params)
    THEN build_error_response(Get(req, "id"), 0 - 32602, "invalid tool params")
    ELSE IF Get(params, "name") # JStr("evidence_query")
    THEN build_error_response(Get(req, "id"), 0 - 32602, "invalid tool params")
    ELSE LET arguments == Get(params, "arguments") IN
         IF ~IsDict(arguments)
         THEN build_error_response(Get(req, "id"), 0 - 32602, "invalid tool params")
         ELSE LET query   == Get(arguments, "query")
                  context == Get(arguments, "context")
              IN  IF ~IsDict(query) \/ ~IsDict(context)
                  THEN build_error_response(Get(req, "id"), 0 - 32602,
                                            "missing query or context")
                  ELSE tool_call_result(req, query, context)

---------------------------------------------------------------------------
(* JSON-RPC handling (provider.py, SECTION: JSON-RPC Handling)              *)

\* handle_request answering a wrong version with the id null
handle_request_drops_id(req) ==
    IF Get(req, "jsonrpc") # JStr("2.0")
    THEN build_error_response(JNull, 0 - 32600, "invalid json-rpc version")
    ELSE LET method == Get(req, "method") IN
         IF method = JStr("tools/list")
         THEN JObj([jsonrpc |-> JStr("2.0"), id |-> Get(req, "id"),
                    result |-> TOOL_LIST_RESULT])
         ELSE IF method = JStr("tools/call")
         THEN handle_tool_call(req)
         ELSE build_error_response(Get(req, "id"), 0 - 32601, "method not found")

\* handle_request validating params for tools/list as for tools/call
handle_request_list_checks_params(req) ==
    IF Get(req, "jsonrpc") # JStr("2.0")
    THEN build_error_response(Get(req, "id"), 0 - 32600, "invalid json-rpc version")
    ELSE LET method == Get(req, "method") IN
         IF method = JStr("tools/list")
         THEN IF ~IsDict(Get(req, "params"))
              THEN build_error_response(Get(req, "id"), 0 - 32602, "invalid tool params")
              ELSE JObj([jsonrpc |-> JStr("2.0"), id |-> Get(req, "id"),
                         result |-> TOOL_LIST_RESULT])
         ELSE IF method = JStr("tools/call")
         THEN handle_tool_call(req)
         ELSE build_error_response(Get(req, "id"), 0 - 32601, "method not found")

\* handle_request with tools/list as the fallback for a request without method
handle_request_default_list(req) ==
    IF Get(req, "jsonrpc") # JStr("2.0")
    THEN build_error_response(Get(req, "id"), 0 - 32600, "invalid json-rpc version")
    ELSE LET method == Get(req, "method") IN
         IF method = JStr("tools/list") \/ method = JNull
         THEN JObj([jsonrpc |-> JStr("2.0"), id |-> Get(req, "id"),
                    result |-> TOOL_LIST_RESULT])
         ELSE IF method = JStr("tools/call")
         THEN handle_tool_call(req)
         ELSE build_error_response(Get(req, "id"), 0 - 32601, "method not found")

handle_request(req) ==
    IF Get(req, "jsonrpc") # JStr("2.0")
    THEN build_error_response(Get(req, "id"), 0 - 32600, "invalid json-rpc version")
    ELSE LET method == Get(req, "method") IN
         IF method = JStr("tools/list")
         THEN JObj([jsonrpc |-> JStr("2.0"), id |-> Get(req, "id"),
                    result |-> TOOL_LIST_RESULT])
         ELSE IF method = JStr("tools/call")
         THEN handle_tool_call(req)
         ELSE build_error_response(Get(req, "id"), 0 - 32601, "method not found")

---------------------------------------------------------------------------
(* Requests for the dispatcher: every combination of the members below,     *)
(* a member being absent, of the wrong type, or well-formed.                *)

Absent == [t |-> "absent"]

\* the dict with the members of r that are not Absent
MkObj(r) == JObj([k \in {x \in DOMAIN r : r[x] # Absent} |-> r[k]])

Versions == {Absent, JStr("2.0"), JStr("1.0"), JInt(2), JNull}
Ids == {Absent, JNull, JInt(1), JStr("abc")}
Methods == {Absent, JStr("tools/list"), JStr("tools/call"), JStr("other"), JInt(7)}
Values == {JStr("x"), JStr("error"), JNull, JInt(0)}
QueryParams ==
    {Absent, JNull, EmptyObj, JStr("text"), JStr("my value"),
     JArr(<<JStr("value")>>), JArr(<<JStr("x")>>), JInt(5), JInt(0), JBool(TRUE)}
        \cup {JObj([value |-> v]) : v \in Values}
Queries == {Absent, JStr("text")} \cup {MkObj([params |-> qp]) : qp \in QueryParams}
Contexts == {Absent, JStr("text"), EmptyObj}
Arguments ==
    {Absent, JStr("text")}
        \cup {MkObj([query |-> q, context |-> c]) : q \in Queries, c \in Contexts}
Names == {Absent, JStr("evidence_query"), JStr("other")}
Params ==
    {Absent, JStr("invalid")}
        \cup {MkObj([name |-> n, arguments |-> a]) : n \in Names, a \in Arguments}
Requests ==
    {MkObj([jsonrpc |-> v, id |-> i, method |-> m, params |-> p]) :
        v \in Versions, i \in Ids, m \in Methods, p \in Params}

InitDispatch ==
    /\ request \in Requests
    /\ response = NoValue
    /\ pc = "dispatch"
    /\ stdin = Empty
    /\ stdout = << >>
    /\ sent = << >>
    /\ calls = << >>
    /\ plan = NoValue

\* response = handle_request(request)
Dispatch ==
    /\ pc = "dispatch"
    /\ response' = handle_request(request)
    /\ pc' = "dispatched"
    /\ UNCHANGED <<stdin, stdout, sent, calls, plan, request>>

NextDispatch == Dispatch

SpecDispatch == InitDispatch /\ [][NextDispatch]_vars

---------------------------------------------------------------------------
(* Claims on the dispatcher, checked under SpecDispatch                     *)

\* a response that is a JSON-RPC error with the given code
IsRpcError(r, code) ==
    /\ IsDict(r)
    /\ "error" \in DOMAIN r.o
    /\ r.o["error"].o["code"] = JInt(code)

\* a response with a result member and no error member
HasResultOnly(r) ==
    /\ IsDict(r)
    /\ "result" \in DOMAIN r.o
    /\ "error" \notin DOMAIN r.o

\* the EvidenceResult inside a tools/call result
EvidenceResultOf(r) == r.o["result"].o["content"].a[1].o["json"]

\* a tools/call request that passes the validation of its params: params an
\* object, name evidence_query, arguments.query and arguments.context objects
ValidToolCall(req) ==
    /\ Get(req, "jsonrpc") = JStr("2.0")
    /\ Get(req, "method") = JStr("tools/call")
    /\ IsDict(Get(req, "params"))
    /\ Get(Get(req, "params"), "name") = JStr("evidence_query")
    /\ IsDict(Get(Get(req, "params"), "arguments"))
    /\ IsDict(Get(Get(Get(req, "params"), "arguments"), "query"))
    /\ IsDict(Get(Get(Get(req, "params"), "arguments"), "context"))

QueryParamsOf(req) ==
    Get(Get(Get(Get(req, "params"), "arguments"), "query"), "params")

\* the query supplies no value, or the forced failure is asked for
DomainFault(req) ==
    \/ ~IsDict(QueryParamsOf(req))
    \/ "value" \notin DOMAIN QueryParamsOf(req).o
    \/ Get(QueryParamsOf(req), "value") = JStr("error")

\* C10: a domain fault is never a JSON-RPC error: every tools/call request
\* that passes params validation gets a response with a result member and no
\* error member, whose EvidenceResult has error populated and value null when
\* the query lacks value or a forced failure occurs; no request yields the
\* JSON-RPC error code -32000.
C10_DomainFaultInResult ==
    pc = "dispatched" =>
        /\ ~IsRpcError(response, 0 - 32000)
        /\ ValidToolCall(request) =>
              /\ HasResultOnly(response)
              /\ DomainFault(request) =>
                    /\ Truthy(Get(EvidenceResultOf(response), "error"))
                    /\ Get(EvidenceResultOf(response), "value") = JNull

\* the request carries the version "2.0"
VersionOk(req) == Get(req, "jsonrpc") = JStr("2.0")

\* a valid tools/call whose query.params is an object that supplies a value
\* other than the one that forces a failure
NonErrorPath(req) ==
    /\ ValidToolCall(req)
    /\ IsDict(QueryParamsOf(req))
    /\ "value" \in DOMAIN QueryParamsOf(req).o
    /\ QueryParamsOf(req).o["value"] # JStr("error")

\* the EvidenceResult of the non-error path for the supplied value v
VerifiedEvidence(v) ==
    JObj([value           |-> JObj([kind |-> JStr("json"), value |-> v]),
          lane            |-> JStr("verified"),
          error           |-> JNull,
          evidence_hash   |-> JNull,
          evidence_ref    |-> JNull,
          evidence_anchor |-> JNull,
          signature       |-> JNull,
          content_type    |-> JStr("application/json")])

\* C12: on the non-error path of a valid tools/call the response is
\* {jsonrpc, id, result: {content: [{type: "json", json: R}]}} with
\* R.value = {kind: "json", value: the supplied value}, R.lane = "verified",
\* R.error and the four provenance fields null, and
\* R.content_type = "application/json".
C12_NonErrorPathResult ==
    (pc = "dispatched" /\ NonErrorPath(request)) =>
        response =
            JObj([jsonrpc |-> JStr("2.0"),
                  id      |-> Get(request, "id"),
                  result  |-> JObj([content |-> JArr(<<
                      JObj([type |-> JStr("json"),
                            json |-> VerifiedEvidence(QueryParamsOf(request).o["value"])])
                      >>)])])

\* a valid call supplying the value "x" under the id 1 was answered
C12_Witness ==
    /\ pc = "dispatched"
    /\ NonErrorPath(request)
    /\ QueryParamsOf(request).o["value"] = JStr("x")
    /\ Get(request, "id") = JInt(1)
    /\ HasResultOnly(response)

\* C13: a request whose jsonrpc member is present and not "2.0" is answered
\* with the error -32600 under the request's id, whatever its method and
\* params are.
C13_WrongVersionRejected ==
    (/\ pc = "dispatched"
     /\ "jsonrpc" \in DOMAIN request.o
     /\ request.o["jsonrpc"] # JStr("2.0")) =>
        /\ IsRpcError(response, 0 - 32600)
        /\ "result" \notin DOMAIN response.o
        /\ response.o["id"] = Get(request, "id")

\* a request of version "1.0" that is otherwise a valid tools/call, with the
\* id "abc", was rejected
C13_Witness ==
    /\ pc = "dispatched"
    /\ Get(request, "jsonrpc") = JStr("1.0")
    /\ Get(request, "method") = JStr("tools/call")
    /\ IsDict(Get(request, "params"))
    /\ Get(request, "id") = JStr("abc")
    /\ IsRpcError(response, 0 - 32600)

\* C14: a request without a jsonrpc member is not answered with "invalid
\* json-rpc version" but routed by its method: the tool list for tools/list,
\* the tool call for tools/call, -32601 for anything else.
C14_AbsentVersionRouted ==
    (pc = "dispatched" /\ "jsonrpc" \notin DOMAIN request.o) =>
        /\ ~IsRpcError(response, 0 - 32600)
        /\ Get(request, "method") = JStr("tools/list") =>
              /\ HasResultOnly(response)
              /\ response.o["result"] = TOOL_LIST_RESULT
        /\ Get(request, "method") = JStr("tools/call") =>
              response = handle_tool_call(request)
        /\ Get(request, "method") \notin {JStr("tools/list"), JStr("tools/call")} =>
              IsRpcError(response, 0 - 32601)

\* C15: every request of version "2.0" and method tools/list gets the same
\* result, which lists exactly one tool, named evidence_query, whatever params
\* holds.
C15_ToolListStatic ==
    (/\ pc = "dispatched"
     /\ VersionOk(request)
     /\ Get(request, "method") = JStr("tools/list")) =>
        /\ HasResultOnly(response)
        /\ response.o["result"] = TOOL_LIST_RESULT
        /\ Len(response.o["result"].o["tools"].a) = 1
        /\ response.o["result"].o["tools"].a[1].o["name"] = JStr("evidence_query")
        /\ response.o["id"] = Get(request, "id")

\* tools/list was answered for a request whose params is not an object
C15_Witness ==
    /\ pc = "dispatched"
    /\ VersionOk(request)
    /\ Get(request, "method") = JStr("tools/list")
    /\ Get(request, "params") = JStr("invalid")
    /\ HasResultOnly(response)

\* C16: a request of version "2.0" whose method is neither tools/list nor
\* tools/call, an absent or non-string method included, is answered with the
\* error -32601.
C16_UnknownMethodRejected ==
    (/\ pc = "dispatched"
     /\ VersionOk(request)
     /\ Get(request, "method") \notin {JStr("tools/list"), JStr("tools/call")}) =>
        response = build_error_response(Get(request, "id"), 0 - 32601, "method not found")

\* a request without a method, carrying the params of a valid tool call, was
\* rejected
C16_Witness ==
    /\ pc = "dispatched"
    /\ VersionOk(request)
    /\ "method" \notin DOMAIN request.o
    /\ IsDict(Get(request, "params"))
    /\ Get(Get(request, "params"), "name") = JStr("evidence_query")
    /\ IsRpcError(response, 0 - 32601)

\* the message for a tools/call that fails the validation of its shape
ShapeMessage(req) ==
    IF /\ IsDict(Get(req, "params"))
       /\ Get(Get(req, "params"), "name") = JStr("evidence_query")
       /\ IsDict(Get(Get(req, "params"), "arguments"))
    THEN "missing query or context"
    ELSE "invalid tool params"

\* C17: a tools/call that fails shape validation is answered with the error
\* -32602 and never reaches the handler: "invalid tool params" when params is
\* no object, params.name is not evidence_query or params.arguments is no
\* object, "missing query or context" when query or context is no object.
C17_ShapeViolationRejected ==
    (/\ pc = "dispatched"
     /\ VersionOk(request)
     /\ Get(request, "method") = JStr("tools/call")
     /\ ~ValidToolCall(request)) =>
        response = build_error_response(Get(request, "id"), 0 - 32602,
                                        ShapeMessage(request))

\* a call under the name "other", whose arguments would make the handler
\* raise, was rejected with "invalid tool params"
C17_Witness ==
    /\ pc = "dispatched"
    /\ VersionOk(request)
    /\ Get(request, "method") = JStr("tools/call")
    /\ IsDict(Get(request, "params"))
    /\ Get(Get(request, "params"), "name") = JStr("other")
    /\ IsDict(Get(Get(request, "params"), "arguments"))
    /\ IsDict(Get(Get(Get(request, "params"), "arguments"), "query"))
    /\ IsDict(Get(Get(Get(request, "params"), "arguments"), "context"))
    /\ QueryParamsOf(request) = JInt(5)
    /\ response = build_error_response(Get(request, "id"), 0 - 32602, "invalid tool params")

\* C34: every response handle_request returns carries the id of the request
\* it answers, on the success paths and on every error path; its id is null
\* exactly when the request has no id or a null id.
C34_IdEchoed ==
    (pc = "dispatched" /\ ~Raised(response)) =>
        /\ IsDict(response)
        /\ "id" \in DOMAIN response.o
        /\ response.o["id"] = Get(request, "id")
        /\ (response.o["id"] = JNull) <=>
              ("id" \notin DOMAIN request.o \/ request.o["id"] = JNull)

\* C34 witness: a tools/call without query and context, with the id "abc",
\* was rejected with -32602 under that id
C34_Witness ==
    /\ pc = "dispatched"
    /\ Get(request, "id") = JStr("abc")
    /\ IsRpcError(response, 0 - 32602)
    /\ response.o["error"].o["message"] = JStr("missing query or context")
    /\ response.o["id"] = JStr("abc")

---------------------------------------------------------------------------
(* json.dumps and json.loads.  Serialisation is computed; parsing is taken  *)
(* by its contract on the documents of the model: a text that is the        *)
(* serialisation of a document, JSON whitespace around it allowed, parses   *)
(* to that document, and every other text of the model is no JSON.  A dict  *)
(* is serialised with its keys in the order KEY_ORDER, which is the order   *)
(* the dict literals of provider.py give.                                   *)

\* str.encode("utf-8") for the strings of the model (all of them ASCII)
Utf8(s) ==
    CASE s = "jsonrpc" -> <<106, 115, 111, 110, 114, 112, 99>>
      [] s = "id" -> <<105, 100>>
      [] s = "method" -> <<109, 101, 116, 104, 111, 100>>
      [] s = "params" -> <<112, 97, 114, 97, 109, 115>>
      [] s = "result" -> <<114, 101, 115, 117, 108, 116>>
      [] s = "name" -> <<110, 97, 109, 101>>
      [] s = "description" -> <<100, 101, 115, 99, 114, 105, 112, 116, 105, 111, 110>>
      [] s = "input_schema" -> <<105, 110, 112, 117, 116, 95, 115, 99, 104, 101, 109, 97>>
      [] s = "arguments" -> <<97, 114, 103, 117, 109, 101, 110, 116, 115>>
      [] s = "query" -> <<113, 117, 101, 114, 121>>
      [] s = "context" -> <<99, 111, 110, 116, 101, 120, 116>>
      [] s = "tools" -> <<116, 111, 111, 108, 115>>
      [] s = "content" -> <<99, 111, 110, 116, 101, 110, 116>>
      [] s = "type" -> <<116, 121, 112, 101>>
      [] s = "json" -> <<106, 115, 111, 110>>
      [] s = "kind" -> <<107, 105, 110, 100>>
      [] s = "value" -> <<118, 97, 108, 117, 101>>
      [] s = "lane" -> <<108, 97, 110, 101>>
      [] s = "error" -> <<101, 114, 114, 111, 114>>
      [] s = "evidence_hash" -> <<101, 118, 105, 100, 101, 110, 99, 101, 95, 104, 97, 115, 104>>
      [] s = "evidence_ref" -> <<101, 118, 105, 100, 101, 110, 99, 101, 95, 114, 101, 102>>
      [] s = "evidence_anchor" -> <<101, 118, 105, 100, 101, 110, 99, 101, 95, 97, 110, 99, 104, 111, 114>>
      [] s = "signature" -> <<115, 105, 103, 110, 97, 116, 117, 114, 101>>
      [] s = "content_type" -> <<99, 111, 110, 116, 101, 110, 116, 95, 116, 121, 112, 101>>
      [] s = "code" -> <<99, 111, 100, 101>>
      [] s = "message" -> <<109, 101, 115, 115, 97, 103, 101>>
      [] s = "2.0" -> <<50, 46, 48>>
      [] s = "1.0" -> <<49, 46, 48>>
      [] s = "tools/list" -> <<116, 111, 111, 108, 115, 47, 108, 105, 115, 116>>
      [] s = "tools/call" -> <<116, 111, 111, 108, 115, 47, 99, 97, 108, 108>>
      [] s = "other" -> <<111, 116, 104, 101, 114>>
      [] s = "evidence_query" -> <<101, 118, 105, 100, 101, 110, 99, 101, 95, 113, 117, 101, 114, 121>>
      [] s = "invalid" -> <<105, 110, 118, 97, 108, 105, 100>>
      [] s = "x" -> <<120>>
      [] s = "abc" -> <<97, 98, 99>>
      [] s = "text" -> <<116, 101, 120, 116>>
      [] s = "my value" -> <<109, 121, 32, 118, 97, 108, 117, 101>>
      [] s = "not" -> <<110, 111, 116>>
      [] s = "object" -> <<111, 98, 106, 101, 99, 116>>
      [] s = "verified" -> <<118, 101, 114, 105, 102, 105, 101, 100>>
      [] s = "application/json" -> <<97, 112, 112, 108, 105, 99, 97, 116, 105, 111, 110, 47, 106, 115, 111, 110>>
      [] s = "Resolve a Decision Gate evidence query." -> <<82, 101, 115, 111, 108, 118, 101, 32, 97, 32, 68, 101, 99, 105, 115, 105, 111, 110, 32, 71, 97, 116, 101, 32, 101, 118, 105, 100, 101, 110, 99, 101, 32, 113, 117, 101, 114, 121, 46>>
      [] s = "invalid json-rpc version" -> <<105, 110, 118, 97, 108, 105, 100, 32, 106, 115, 111, 110, 45, 114, 112, 99, 32, 118, 101, 114, 115, 105, 111, 110>>
      [] s = "method not found" -> <<109, 101, 116, 104, 111, 100, 32, 110, 111, 116, 32, 102, 111, 117, 110, 100>>
      [] s = "invalid tool params" -> <<105, 110, 118, 97, 108, 105, 100, 32, 116, 111, 111, 108, 32, 112, 97, 114, 97, 109, 115>>
      [] s = "missing query or context" -> <<109, 105, 115, 115, 105, 110, 103, 32, 113, 117, 101, 114, 121, 32, 111, 114, 32, 99, 111, 110, 116, 101, 120, 116>>
      [] s = "params.value is required" -> <<112, 97, 114, 97, 109, 115, 46, 118, 97, 108, 117, 101, 32, 105, 115, 32, 114, 101, 113, 117, 105, 114, 101, 100>>
      [] s = "forced error" -> <<102, 111, 114, 99, 101, 100, 32, 101, 114, 114, 111, 114>>
      [] s = "invalid json" -> <<105, 110, 118, 97, 108, 105, 100, 32, 106, 115, 111, 110>>
      [] s = "headers too large" -> <<104, 101, 97, 100, 101, 114, 115, 32, 116, 111, 111, 32, 108, 97, 114, 103, 101>>
      [] s = "invalid content length" -> <<105, 110, 118, 97, 108, 105, 100, 32, 99, 111, 110, 116, 101, 110, 116, 32, 108, 101, 110, 103, 116, 104>>
      [] s = "missing content length" -> <<109, 105, 115, 115, 105, 110, 103, 32, 99, 111, 110, 116, 101, 110, 116, 32, 108, 101, 110, 103, 116, 104>>
      [] s = "payload too large" -> <<112, 97, 121, 108, 111, 97, 100, 32, 116, 111, 111, 32, 108, 97, 114, 103, 101>>
      [] s = "unexpected eof" -> <<117, 110, 101, 120, 112, 101, 99, 116, 101, 100, 32, 101, 111, 102>>
      [] s = "" -> <<>>

KEY_ORDER ==
    <<"jsonrpc", "id", "method", "params", "result", "name", "description",
      "input_schema", "arguments", "query", "context", "tools", "content",
      "type", "json", "kind", "value", "lane", "error", "evidence_hash",
      "evidence_ref", "evidence_anchor", "signature", "content_type", "code",
      "message">>

\* b", " and b": ", the separators json.dumps uses
ITEM_SEPARATOR == Lit(<<44, 32>>)
KEY_SEPARATOR == Lit(<<58, 32>>)

\* the keys of a dict in the order of its items
InKeys(o, k) == k \in DOMAIN o
Keys(o) == SelectSeq(KEY_ORDER, LAMBDA k : InKeys(o, k))

RECURSIVE Dumps(_)

\* json.dumps(v).encode("utf-8")
Dumps(v) ==
    CASE v.t = "null" -> Lit(<<110, 117, 108, 108>>)
      [] v.t = "bool" -> IF v.b THEN Lit(<<116, 114, 117, 101>>)
                         ELSE Lit(<<102, 97, 108, 115, 101>>)
      [] v.t = "int"  -> IF v.i < 0 THEN Join(<<Lit(<<45>>), Lit(IntToCodes(0 - v.i))>>)
                         ELSE Lit(IntToCodes(v.i))
      [] v.t = "str"  -> Join(<<Lit(<<34>>), Lit(Utf8(v.s)), Lit(<<34>>)>>)
      [] v.t = "rep"  -> Join(<<Lit(<<34>>), Rep(v.c, v.n), Lit(<<34>>)>>)
      [] v.t = "arr"  ->
            LET items == [i \in 1..Len(v.a) |->
                            Join(<<IF i > 1 THEN ITEM_SEPARATOR ELSE Empty,
                                   Dumps(v.a[i])>>)]
            IN  Join(<<Lit(<<91>>), Join(items), Lit(<<93>>)>>)
      [] v.t = "obj"  ->
            LET keys    == Keys(v.o)
                members == [i \in 1..Len(keys) |->
                              Join(<<IF i > 1 THEN ITEM_SEPARATOR ELSE Empty,
                                     Lit(<<34>>), Lit(Utf8(keys[i])), Lit(<<34>>),
                                     KEY_SEPARATOR,
                                     Dumps(v.o[keys[i]])>>)]
            IN  Join(<<Lit(<<123>>), Join(members), Lit(<<125>>)>>)

\* the requests and other documents that reach the session loop as bodies
Call(id, params) ==
    JObj([jsonrpc |-> JStr("2.0"), id |-> id, method |-> JStr("tools/call"),
          params |-> JObj([name |-> JStr("evidence_query"),
                           arguments |-> JObj([query |-> JObj([params |-> params]),
                                               context |-> EmptyObj])])])

Document(kind) ==
    CASE kind = "list"    -> JObj([jsonrpc |-> JStr("2.0"), id |-> JInt(1),
                                   method |-> JStr("tools/list")])
      [] kind = "call"    -> Call(JInt(2), JObj([value |-> JStr("x")]))
      [] kind = "fault"   -> Call(JInt(3), EmptyObj)
      [] kind = "crash"   -> Call(JInt(4), JInt(5))
      [] kind = "version" -> JObj([jsonrpc |-> JStr("1.0"), id |-> JInt(5)])
      [] kind = "method"  -> JObj([jsonrpc |-> JStr("2.0"), id |-> JStr("abc"),
                                   method |-> JStr("other")])
      [] kind = "params"  -> JObj([jsonrpc |-> JStr("2.0"), id |-> JInt(2),
                                   method |-> JStr("tools/call"),
                                   params |-> JStr("invalid")])
      [] kind = "array"   -> JArr(<<JStr("not"), JStr("object")>>)
      [] kind = "number"  -> JInt(5)
      [] kind = "string"  -> JStr("x")
      [] kind = "null"    -> JNull

DocumentKinds ==
    {"list", "call", "fault", "crash", "version", "method", "params", "array"}

\* documents that are a scalar at the top level
ScalarKinds == {"number", "string", "null"}

\* a str value that leaves its tools/call request within MAX_BODY_BYTES
BIG_VALUE == JRep(97, MAX_BODY_BYTES - 200)

\* the requests whose responses are written to a loopback stream
LoopbackParams ==
    {Absent, JStr("invalid")}
        \cup {MkObj([name      |-> JStr("evidence_query"),
                     arguments |-> MkObj([query   |-> MkObj([params |-> qp]),
                                          context |-> c])]) :
                 qp \in {EmptyObj} \cup {JObj([value |-> v]) : v \in Values \cup {BIG_VALUE}},
                 c \in {Absent, EmptyObj}}

LoopbackRequests ==
    {MkObj([jsonrpc |-> v, id |-> i, method |-> m, params |-> p]) :
        v \in {JStr("2.0"), JStr("1.0")}, i \in Ids, m \in Methods,
        p \in LoopbackParams}

\* the responses of the dispatcher to them
LoopbackResponses == {handle_request(r) : r \in LoopbackRequests}

DocTable ==
    {<<Dumps(Document(k)), Document(k)>> : k \in DocumentKinds \cup ScalarKinds}
        \cup {<<Dumps(r), r>> : r \in LoopbackResponses}

\* the whitespace JSON allows around a document
JSON_WHITESPACE == {9, 10, 13, 32}

RECURSIVE JLStrip(_)
JLStrip(s) ==
    IF s = Empty THEN Empty
    ELSE IF s[1].b \in JSON_WHITESPACE THEN JLStrip(Tail(s))
    ELSE s

RECURSIVE JRStrip(_)
JRStrip(s) ==
    IF s = Empty THEN Empty
    ELSE IF s[Len(s)].b \in JSON_WHITESPACE THEN JRStrip(SubSeq(s, 1, Len(s) - 1))
    ELSE s

\* sys.getrecursionlimit(): a text that opens more arrays than this makes
\* json.loads raise RecursionError
PY_RECURSION_LIMIT == 1000

\* sys.get_int_max_str_digits(): an integer literal of more digits than this
\* makes json.loads raise ValueError
INT_MAX_STR_DIGITS == 4300

\* b'{"id": ', the opening of an object whose first member is the id
ID_MEMBER_OPENING == Lit(<<123, 34, 105, 100, 34, 58, 32>>)

\* the text opens with an integer literal, at the top level or as the id of
\* an object, of more than INT_MAX_STR_DIGITS digits
OpensWithHugeInteger(core) ==
    LET number == IF Take(core, BLen(ID_MEMBER_OPENING)) = ID_MEMBER_OPENING
                  THEN Drop(core, BLen(ID_MEMBER_OPENING))
                  ELSE core
    IN  /\ number # Empty
        /\ number[1].b >= 49
        /\ number[1].b <= 57
        /\ number[1].n > INT_MAX_STR_DIGITS

\* json.loads(text): the document, or JSONDecodeError, RecursionError or
\* ValueError
json_loads(text) ==
    LET core == JRStrip(JLStrip(text)) IN
    IF \E e \in DocTable : e[1] = core
    THEN (CHOOSE e \in DocTable : e[1] = core)[2]
    ELSE IF core # Empty /\ core[1].b = 91 /\ core[1].n > PY_RECURSION_LIMIT
    THEN Raise("RecursionError")
    ELSE IF OpensWithHugeInteger(core)
    THEN Raise("ValueError")
    ELSE Raise("JSONDecodeError")

\* the bytes that occur in no UTF-8 text
NEVER_UTF8 == {192, 193} \cup (245..255)

\* payload.decode("utf-8") succeeds
Utf8Valid(payload) == \A j \in 1..Len(payload) : payload[j].b \notin NEVER_UTF8

\* parse_request(payload): the request, None, or the exception it lets out
parse_request(payload) ==
    IF ~Utf8Valid(payload) THEN JNull
    ELSE LET parsed == json_loads(payload) IN
         IF Raised(parsed)
         THEN IF parsed.exc = "JSONDecodeError" THEN JNull ELSE parsed
         ELSE IF ~IsDict(parsed) THEN JNull
         ELSE parsed

\* write_frame(stream, response): the bytes written, header then payload
write_frame(resp) ==
    LET payload == Dumps(resp)
        header  == Join(<<NAME_CAPITALISED, Lit(IntToCodes(BLen(payload))), CRLF, CRLF>>)
    IN  Join(<<header, payload>>)

\* a buffered binary stream: the chunks flushed so far, oldest first, and the
\* bytes written since the last flush
Stream(flushed) == [flushed |-> flushed, buffer |-> Empty]

\* stream.write(data)
stream_write(stream, data) == [stream EXCEPT !.buffer = Cat(@, data)]

\* stream.flush()
stream_flush(stream) ==
    [flushed |-> Append(stream.flushed, stream.buffer), buffer |-> Empty]

\* f"Content-Length: {len(payload)}\r\n\r\n".encode("utf-8")
frame_header(payload) ==
    Join(<<NAME_CAPITALISED, Lit(IntToCodes(BLen(payload))), CRLF, CRLF>>)

\* write_frame without the flush at its end
write_frame_unflushed(stream, resp) ==
    stream_write(stream_write(stream, frame_header(Dumps(resp))), Dumps(resp))

\* write_frame(stream, response): the stream after the two writes and the flush
write_frame_to(stream, resp) ==
    stream_flush(stream_write(stream_write(stream, frame_header(Dumps(resp))),
                              Dumps(resp)))

---------------------------------------------------------------------------
(* main(): the session loop.  The standard input holds a sequence of at     *)
(* most MaxFrames segments; each turn of the loop reads one frame, and      *)
(* answers it or ends the session.                                          *)

MaxFrames == 2

\* b"Content-Length: <len(body)>\r\n\r\n" + body
Framed(body) ==
    Cat(NAME_CAPITALISED, Cat(Lit(IntToCodes(BLen(body))), Cat(CRLF, Cat(CRLF, body))))

\* a body of 200 * PY_RECURSION_LIMIT opening brackets
DEEP_BODY == Rep(91, 200 * PY_RECURSION_LIMIT)

SegmentKinds ==
    DocumentKinds \cup {"junk", "utf8", "deep", "oversize", "nolength", "short", "cut"}

Segment(kind) ==
    CASE kind \in DocumentKinds -> Framed(Dumps(Document(kind)))
      [] kind = "junk"     -> Framed(BodyBytes(5))
      [] kind = "utf8"     -> Framed(Rep(255, 1))
      [] kind = "deep"     -> Framed(DEEP_BODY)
      [] kind = "oversize" -> Framed(Rep(120, MAX_BODY_BYTES + 1))
      [] kind = "nolength" -> Cat(X_TEST_LINE, Cat(CRLF, BodyBytes(5)))
      [] kind = "short"    -> Cat(HeaderLine("CL5"), Cat(CRLF, BodyBytes(4)))
      [] kind = "cut"      -> HeaderLine("CL5")

RECURSIVE SegmentsFrom(_, _)
SegmentsFrom(p, i) ==
    IF i > Len(p) THEN Empty ELSE Cat(Segment(p[i]), SegmentsFrom(p, i + 1))

SessionPlans == SeqsUpTo(SegmentKinds, MaxFrames)

Init ==
    /\ plan \in SessionPlans
    /\ stdin = SegmentsFrom(plan, 1)
    /\ stdout = << >>
    /\ sent = << >>
    /\ pc = "read"
    /\ calls = << >>
    /\ request = NoValue
    /\ response = NoValue

\* main() with the return after a fatal FrameError left out
AfterFrameErrorContinue(fatal) == "read"

\* where main() goes after it has answered a FrameError
AfterFrameError(fatal) == IF fatal THEN "stopped" ELSE "read"

\* main() keeping the first response it wrote and writing it again for
\* every later message
WriteCached(resp) ==
    LET kept == IF Len(sent) > 0 THEN sent[1] ELSE resp IN
    /\ stdout' = write_frame_to(Stream(stdout), kept).flushed
    /\ sent' = Append(sent, kept)

\* write_frame(sys.stdout.buffer, resp)
Write(resp) ==
    /\ stdout' = write_frame_to(Stream(stdout), resp).flushed
    /\ sent' = Append(sent, resp)

\* main() reading one frame ahead, while the frame before it is unanswered
ReadFrameAhead ==
    /\ pc \in {"read", "handle"}
    /\ Len(calls) <= Len(sent) + 1
    /\ LET r == read_frame(stdin) IN
       /\ calls' = Append(calls, r)
       /\ stdin' = r.rest
       /\ pc' = IF r.kind = "drain" THEN "drain" ELSE "handle"
    /\ UNCHANGED <<stdout, sent, plan, request, response>>

\* payload = read_frame(sys.stdin.buffer), up to the drain of an oversized body
ReadFrame ==
    /\ pc = "read"
    /\ LET r == read_frame(stdin) IN
       /\ calls' = Append(calls, r)
       /\ stdin' = r.rest
       /\ pc' = IF r.kind = "drain" THEN "drain" ELSE "handle"
    /\ UNCHANGED <<stdout, sent, plan, request, response>>

\* one turn of the loop of discard_bytes inside read_frame
Discard ==
    /\ pc = "drain"
    /\ LET r == discard_bytes(calls[Len(calls)]) IN
       /\ calls' = [calls EXCEPT ![Len(calls)] = r]
       /\ stdin' = r.rest
       /\ pc' = IF r.kind = "drain" THEN "drain" ELSE "handle"
    /\ UNCHANGED <<stdout, sent, plan, request, response>>

\* write_frame(stdout, resp) returns, and main() goes on at next
Wrote(resp, next) ==
    /\ Write(resp)
    /\ pc' = next

\* how many bytes of the frame went out before the OSError: none, the
\* header, or all but the last byte
DeliveredBefore(frame) ==
    {0, BLen(ReadLine(frame).line) + BLen(CRLF), BLen(frame) - 1}

\* main() catching the OSError of write_frame and going on with the loop
WriteFailsSwallowed(resp, next) ==
    /\ \E frame \in {write_frame(resp)} :
          \E n \in DeliveredBefore(frame) :
              stdout' = Append(stdout, Take(frame, n))
    /\ sent' = sent
    /\ pc' = next

\* write_frame raises OSError: nothing in main() catches it, and main() ends
WriteFails(resp, next) ==
    /\ \E frame \in {write_frame(resp)} :
          \E n \in DeliveredBefore(frame) :
              stdout' = Append(stdout, Take(frame, n))
    /\ sent' = sent
    /\ pc' = "failed"

\* the call of write_frame(stdout, resp) in main(): it returns or, on an
\* output stream that can fail, raises
Out(canFail, resp, next) ==
    \/ Wrote(resp, next)
    \/ canFail /\ WriteFails(resp, next)

\* except FrameError as exc: answer, then return or continue
AnswerFrameError(canFail) ==
    /\ pc = "handle"
    /\ LET r == calls[Len(calls)] IN
       /\ r.kind = "error"
       /\ Out(canFail, build_error_response(JNull, 0 - 32600, r.message),
              AfterFrameError(r.fatal))
    /\ UNCHANGED <<stdin, calls, plan, request, response>>

OnFrameError == AnswerFrameError(FALSE)

\* main() answering the end of the input with an error before it returns
OnEndOfInputAnswered ==
    /\ pc = "handle"
    /\ calls[Len(calls)].kind = "none"
    /\ Write(build_error_response(JNull, 0 - 32600, "unexpected eof"))
    /\ pc' = "stopped"
    /\ UNCHANGED <<stdin, calls, plan, request, response>>

\* if payload is None: return
OnEndOfInput ==
    /\ pc = "handle"
    /\ calls[Len(calls)].kind = "none"
    /\ pc' = "stopped"
    /\ UNCHANGED <<stdin, stdout, sent, calls, plan, request, response>>

\* request = parse_request(payload), and the answer to it; an exception that
\* parse_request or handle_request lets out ends the process with a traceback
AnswerPayload(canFail) ==
    /\ pc = "handle"
    /\ LET r   == calls[Len(calls)]
           req == parse_request(r.payload)
       IN
       /\ r.kind = "frame"
       /\ IF Raised(req)
          THEN /\ pc' = "crashed"
               /\ request' = req
               /\ UNCHANGED <<stdout, sent, response>>
          ELSE IF req = JNull
          THEN /\ Out(canFail,
                      build_error_response(JNull, 0 - 32700, "invalid json"),
                      "read")
               /\ request' = req
               /\ UNCHANGED response
          ELSE LET resp == handle_request(req) IN
               IF Raised(resp)
               THEN /\ pc' = "crashed"
                    /\ request' = req
                    /\ response' = resp
                    /\ UNCHANGED <<stdout, sent>>
               ELSE /\ Out(canFail, resp, "read")
                    /\ request' = req
                    /\ response' = resp
    /\ UNCHANGED <<stdin, calls, plan>>

OnPayload == AnswerPayload(FALSE)

Next == ReadFrame \/ Discard \/ OnFrameError \/ OnEndOfInput \/ OnPayload

Spec == Init /\ [][Next]_vars

---------------------------------------------------------------------------
(* Claims on the session loop, checked under Spec                           *)

\* the outcome of the latest call of read_frame
LastCall == calls[Len(calls)]

\* the response main() writes for a FrameError
FrameErrorResponse(r) == build_error_response(JNull, 0 - 32600, r.message)

\* the segments that are frames whose payload is a JSON object
RequestKinds == {k \in DocumentKinds : IsDict(Document(k))}

\* C4: the session ends only by returning, after the clean end of the
\* stream or a fatal framing error; no input makes parse_request,
\* handle_request, handle_tool_call or handle_evidence_query raise out of main.
C4_NeverCrashes == pc # "crashed"

\* C7: once read_frame has raised a fatal FrameError, the loop writes exactly
\* one response, the error -32600 with id null and the FrameError's message,
\* reads nothing more, and stops; a stopped session takes no further step,
\* whatever is left in the stream.
C7_FatalAnsweredOnceThenStopped ==
    [][IF pc = "stopped" THEN FALSE
       ELSE (pc = "handle" /\ LastCall.kind = "error" /\ LastCall.fatal) =>
                /\ sent' = Append(sent, FrameErrorResponse(LastCall))
                /\ stdout' = Append(stdout, write_frame(FrameErrorResponse(LastCall)))
                /\ stdin' = stdin
                /\ calls' = calls
                /\ pc' = "stopped"]_vars

\* a fatal FrameError was answered and the session stopped with a whole
\* well-formed frame still unread in the stream
C7_Witness ==
    /\ pc = "stopped"
    /\ Len(plan) = 2
    /\ plan[1] = "nolength"
    /\ plan[2] \in RequestKinds
    /\ LastCall.kind = "error"
    /\ LastCall.fatal
    /\ Len(calls) = 1
    /\ sent = <<FrameErrorResponse(LastCall)>>
    /\ BLen(stdin) >= BLen(Segment(plan[2]))

\* C8: a recoverable FrameError is answered with the error -32600, id null
\* and the FrameError's message, and the session goes on: when it is over,
\* every request frame that followed the oversized one has been answered.
C8_RecoverableThenServed ==
    \A i \in 1..Len(calls) :
        (/\ calls[i].kind = "error"
         /\ ~calls[i].fatal
         /\ (i < Len(calls) \/ pc # "handle")) =>
            /\ Len(sent) >= i
            /\ sent[i] = FrameErrorResponse(calls[i])
            /\ \A j \in (i + 1)..Len(plan) :
                  (/\ pc \in {"stopped", "crashed"}
                   /\ \A k \in (i + 1)..j : plan[k] \in RequestKinds) =>
                      Len(sent) >= j

\* C9: a frame that read_frame returned gets exactly one response, and the
\* loop goes on to read the next frame.
C9_OneResponsePerFrame ==
    [][(pc = "handle" /\ LastCall.kind = "frame") =>
           /\ Len(sent') = Len(sent) + 1
           /\ Len(stdout') = Len(stdout) + 1
           /\ pc' = "read"]_vars

\* C28: when read_frame has returned None, the loop stops without writing
\* a response for that turn, and a stopped session reads and writes nothing
\* more (it takes no further step).
C28_NoneStopsSilently ==
    [][/\ pc # "stopped"
       /\ (pc = "handle" /\ LastCall.kind = "none") =>
              /\ pc' = "stopped"
              /\ sent' = sent
              /\ stdout' = stdout
              /\ stdin' = stdin
              /\ calls' = calls]_vars

\* C28 witness: two requests were answered, the third read found the end of
\* the stream, and the session stopped with two responses written
C28_Witness ==
    /\ pc = "stopped"
    /\ Len(plan) = 2
    /\ Len(calls) = 3
    /\ LastCall.kind = "none"
    /\ Len(sent) = 2
    /\ Len(stdout) = 2
    /\ stdin = Empty

\* main() moving on from where it is: every step it takes at "read" or at
\* "handle" leads to another position, on the guards of Next alone
Leave ==
    \/ pc = "read" /\ pc' \in {"drain", "handle"}
    \/ pc = "handle" /\ pc' \in {"read", "stopped", "crashed"}

\* main() is one sequential process that keeps running: it does not stay
\* at "read" or at "handle" forever, and while it is in the loop of
\* discard_bytes it keeps taking turns of that loop.  Nothing here says
\* that the loop of discard_bytes ends.
SpecLive ==
    /\ Spec
    /\ WF_pc(Leave)
    /\ ([]<>(pc # "drain") \/ []<><<TRUE>>_vars)

\* C29: on every input stream (all are finite and end) the session
\* eventually reaches the terminal state Stopped, and each turn of the loop
\* either finds the end of the stream or takes at least one byte from it.
C29_EventuallyStopped ==
    /\ <>(pc = "stopped")
    /\ [][pc = "read" =>
             \/ BLen(stdin') < BLen(stdin)
             \/ calls'[Len(calls')].kind = "none"]_vars

\* the segments that are one whole frame
WholeFrames == SegmentKinds \ {"nolength", "short", "cut"}

\* the requests with a protocol-shape fault, and the code that answers each
ShapeFaultKinds == {"version", "method", "params"}

ShapeFaultCode(kind) ==
    CASE kind = "version" -> 0 - 32600
      [] kind = "method"  -> 0 - 32601
      [] kind = "params"  -> 0 - 32602

\* C30: a frame with a protocol-shape fault (wrong jsonrpc version, unknown
\* method, malformed tool-call params) is answered with -32600, -32601 or
\* -32602, the session stays running, and the frame that follows it in the
\* stream is read and answered.
C30_ShapeFaultRecoverable ==
    \A i \in 1..Len(plan) :
        ( /\ plan[i] \in ShapeFaultKinds
          /\ \A k \in 1..(i - 1) : plan[k] \in WholeFrames
          /\ Len(sent) >= i )
        => /\ IsRpcError(sent[i], ShapeFaultCode(plan[i]))
           /\ Len(calls) = i => pc = "read"
           /\ ( /\ pc \in {"stopped", "crashed"}
                /\ i < Len(plan)
                /\ plan[i + 1] \in WholeFrames )
              => Len(sent) >= i + 1

\* what main() answers to a payload, from the payload alone
Answer(payload) ==
    LET req == parse_request(payload) IN
    IF req = JNull THEN build_error_response(JNull, 0 - 32700, "invalid json")
    ELSE handle_request(req)

\* C31: the response to a frame depends on the bytes of that frame only:
\* whatever was processed before it in the session (valid, rejected or
\* oversized messages), the response written for a frame is the one its
\* payload alone determines, so it is the same in any two sessions.
C31_ResponseFromFrameAlone ==
    \A i \in 1..Len(sent) :
        calls[i].kind = "frame" =>
            /\ sent[i] = Answer(calls[i].payload)
            /\ stdout[i] = write_frame(Answer(calls[i].payload))

\* C31 witness: a request was answered after an oversized, a rejected or a
\* valid message had been answered differently before it
C31_Witness ==
    /\ Len(plan) = 2
    /\ plan[1] \in {"oversize", "version", "list"}
    /\ plan[2] = "call"
    /\ Len(sent) = 2
    /\ calls[2].kind = "frame"
    /\ sent[2] = Answer(calls[2].payload)
    /\ sent[1] # sent[2]

\* C32: messages are strictly serialized, one in flight at a time: a call
\* of read_frame starts only when every earlier call has its response (or
\* its error response) completely written and flushed, and no step other
\* than that call takes bytes from the input.
C32_OneInFlight ==
    [][/\ (Len(calls') > Len(calls)) =>
              /\ pc = "read"
              /\ Len(sent) = Len(calls)
              /\ Len(stdout) = Len(calls)
              /\ \A i \in 1..Len(calls) : stdout[i] = write_frame(sent[i])
       /\ (Len(calls') = Len(calls) /\ stdin' # stdin) => pc = "drain"
       /\ Len(calls') - Len(sent') \in {0, 1}]_vars

\* C32 witness: the second frame is being read after the first response was
\* written whole, and nothing else is in flight
C32_Witness ==
    /\ Len(calls) = 2
    /\ pc = "handle"
    /\ calls[1].kind = "frame"
    /\ calls[2].kind = "frame"
    /\ Len(sent) = 1
    /\ stdout = <<write_frame(sent[1])>>

---------------------------------------------------------------------------
(* The session loop on an output stream that can fail: a call of            *)
(* stream.write or stream.flush inside write_frame raises OSError after it  *)
(* delivered none, or a part, of the frame.  stdout then holds what each    *)
(* call of write_frame delivered, sent the responses written whole.         *)

OnFrameErrorBrokenOutput == AnswerFrameError(TRUE)

OnPayloadBrokenOutput == AnswerPayload(TRUE)

NextBrokenOutput ==
    \/ ReadFrame
    \/ Discard
    \/ OnFrameErrorBrokenOutput
    \/ OnEndOfInput
    \/ OnPayloadBrokenOutput

SpecBrokenOutput == Init /\ [][NextBrokenOutput]_vars

\* a call of write_frame has failed
WriteFailed == Len(stdout) > Len(sent)

\* C35: an I/O error of the output stream during write_frame is fatal to
\* the session: after a failed write no further frame is read and no
\* further response is written.
C35_WriteErrorFatal ==
    [][WriteFailed =>
           /\ calls' = calls
           /\ stdin' = stdin
           /\ stdout' = stdout
           /\ sent' = sent]_vars

\* C35 witness: the write of the first response failed after its header,
\* and the session is over with a whole request unread
C35_Witness ==
    /\ pc = "failed"
    /\ WriteFailed
    /\ Len(plan) = 2
    /\ plan[1] \in RequestKinds
    /\ plan[2] \in RequestKinds
    /\ Len(calls) = 1
    /\ sent = << >>
    /\ Len(stdout) = 1
    /\ stdout[1] # Empty
    /\ ReadLine(ReadLine(stdout[1]).rest) = [line |-> CRLF, rest |-> Empty]
    /\ stdin = Segment(plan[2])

---------------------------------------------------------------------------
(* handle_evidence_query applied directly, as the evidence test applies it: *)
(* request holds the query and the context, response the value returned.    *)

EvidenceQueries ==
    {MkObj([params |-> qp, value |-> v]) :
        qp \in QueryParams, v \in {Absent, JStr("x")}}

EvidenceContexts == {EmptyObj, JObj([value |-> JStr("x")])}

InitEvidence ==
    /\ request \in {JObj([query |-> q, context |-> c]) :
                       q \in EvidenceQueries, c \in EvidenceContexts}
    /\ response = NoValue
    /\ pc = "evidence"
    /\ stdin = Empty
    /\ stdout = << >>
    /\ sent = << >>
    /\ calls = << >>
    /\ plan = NoValue

\* result = provider.handle_evidence_query(query, context)
Resolve ==
    /\ pc = "evidence"
    /\ response' = handle_evidence_query(Get(request, "query"), Get(request, "context"))
    /\ pc' = "resolved"
    /\ UNCHANGED <<stdin, stdout, sent, calls, plan, request>>

NextEvidence == Resolve

SpecEvidence == InitEvidence /\ [][NextEvidence]_vars

\* the params of the query are an object without the key "value"
LacksValue(query) ==
    /\ IsDict(Get(query, "params"))
    /\ "value" \notin DOMAIN Get(query, "params").o

\* C11: for a query whose params object has no value key, the result of
\* handle_evidence_query has value present and null, content_type present and
\* null, and error a structured object whose code is "invalid_params".
C11_MissingValueStructuredError ==
    (pc = "resolved" /\ LacksValue(Get(request, "query"))) =>
        /\ IsDict(response)
        /\ "value" \in DOMAIN response.o
        /\ response.o["value"] = JNull
        /\ "content_type" \in DOMAIN response.o
        /\ response.o["content_type"] = JNull
        /\ "error" \in DOMAIN response.o
        /\ IsDict(response.o["error"])
        /\ Get(response.o["error"], "code") = JStr("invalid_params")

---------------------------------------------------------------------------
(* parse_request applied directly, as the JSON-RPC tests apply it: the      *)
(* payload is a body with bytes put before and after it, calls holds it as  *)
(* the frame read, request the value returned.                              *)

\* an integer literal of 5000 digits
HUGE_INTEGER == Rep(57, INT_MAX_STR_DIGITS + 700)

PayloadKinds ==
    DocumentKinds \cup ScalarKinds
        \cup {"junk", "utf8", "deep", "hugeint", "hugeid", "empty"}

PayloadBody(kind) ==
    CASE kind \in DocumentKinds \cup ScalarKinds -> Dumps(Document(kind))
      [] kind = "junk"    -> BodyBytes(5)
      [] kind = "utf8"    -> Rep(255, 1)
      [] kind = "deep"    -> DEEP_BODY
      [] kind = "hugeint" -> HUGE_INTEGER
      [] kind = "hugeid"  -> Join(<<ID_MEMBER_OPENING, HUGE_INTEGER, Lit(<<125>>)>>)
      [] kind = "empty"   -> Empty

\* b"", b" ", b"\n", b"\t\r\n", the form feed b"\x0c" and the UTF-8 byte
\* order mark
Paddings == {"none", "space", "lf", "tabcrlf", "ff", "bom"}

Padding(kind) ==
    CASE kind = "none"    -> Empty
      [] kind = "space"   -> Lit(<<32>>)
      [] kind = "lf"      -> Lit(<<10>>)
      [] kind = "tabcrlf" -> Lit(<<9, 13, 10>>)
      [] kind = "ff"      -> Lit(<<12>>)
      [] kind = "bom"     -> Lit(<<239, 187, 191>>)

PayloadPlans == [body : PayloadKinds, lead : Paddings, trail : Paddings]

PayloadBytes(p) == Join(<<Padding(p.lead), PayloadBody(p.body), Padding(p.trail)>>)

InitParse ==
    /\ plan \in PayloadPlans
    /\ calls = <<Outcome("frame", PayloadBytes(plan), "", FALSE, Empty,
                         BLen(PayloadBytes(plan)), 0, 0, 0, 0)>>
    /\ request = NoValue
    /\ response = NoValue
    /\ pc = "parse"
    /\ stdin = Empty
    /\ stdout = << >>
    /\ sent = << >>

\* result = provider.parse_request(payload)
Parse ==
    /\ pc = "parse"
    /\ request' = parse_request(calls[1].payload)
    /\ pc' = "parsed"
    /\ UNCHANGED <<stdin, stdout, sent, calls, plan, response>>

NextParse == Parse

SpecParse == InitParse /\ [][NextParse]_vars

\* the paddings that are JSON whitespace
JsonPaddings == {"none", "space", "lf", "tabcrlf"}

\* the payload is a JSON text: a document between JSON whitespace
IsJsonText(p) ==
    /\ p.body \in DocumentKinds \cup ScalarKinds \cup {"hugeid", "hugeint"}
    /\ p.lead \in JsonPaddings
    /\ p.trail \in JsonPaddings

\* the payload is a JSON text whose value is one of the objects of the model
IsObjectText(p) ==
    /\ IsJsonText(p)
    /\ p.body \in DocumentKinds
    /\ IsDict(Document(p.body))

\* C19: parse_request never raises; it returns None for bytes that are not
\* valid UTF-8, for a text that is not valid JSON and for a JSON value that
\* is not an object, and the parsed object otherwise.
C19_ParseTotal ==
    pc = "parsed" =>
        /\ ~Raised(request)
        /\ IsObjectText(plan) => request = Document(plan.body)
        /\ (~IsJsonText(plan) \/ plan.body \in ScalarKinds \cup {"array", "hugeint"}) =>
              request = JNull

---------------------------------------------------------------------------
(* Claims on the answers of the session loop, checked under Spec            *)

\* the payload does not decode to a request: its bytes are not valid UTF-8,
\* its text is not valid JSON, or its value is not an object
DecodeFault(payload) ==
    \/ ~Utf8Valid(payload)
    \/ Raised(json_loads(payload))
    \/ ~IsDict(json_loads(payload))

\* C18: when the payload of a successfully read frame fails to decode, the
\* loop writes one error response with code -32700 and id null, and goes on
\* with the next frame.
C18_DecodeFaultAnswered ==
    [][(pc = "handle" /\ LastCall.kind = "frame" /\ DecodeFault(LastCall.payload)) =>
           /\ Len(sent') = Len(sent) + 1
           /\ IsRpcError(sent'[Len(sent')], 0 - 32700)
           /\ sent'[Len(sent')].o["id"] = JNull
           /\ pc' = "read"]_vars

\* a response with exactly one of the members result and error
ExactlyOneOfResultAndError(r) ==
    /\ IsDict(r)
    /\ ("result" \in DOMAIN r.o) # ("error" \in DOMAIN r.o)

\* C20: every response the session writes has exactly one of the members
\* result and error, never both and never neither.
C20_ResultXorError ==
    \A i \in 1..Len(sent) : ExactlyOneOfResultAndError(sent[i])

\* a session that wrote a result and then an error
C20_Witness ==
    /\ Len(sent) = 2
    /\ "result" \in DOMAIN sent[1].o
    /\ "error" \in DOMAIN sent[2].o
    /\ plan = <<"call", "fault">>

---------------------------------------------------------------------------
(* Claims on the result of the evidence handler, checked under SpecEvidence *)

\* the member k of the dict r is present and not null
Populated(r, k) == k \in DOMAIN r.o /\ r.o[k] # JNull

\* C21: every result handle_evidence_query returns has exactly one of value
\* and error populated: never both, and never both null or absent.
C21_ValueXorError ==
    (pc = "resolved" /\ ~Raised(response)) =>
        /\ IsDict(response)
        /\ Populated(response, "value") # Populated(response, "error")

\* the forced failure was resolved: error populated, value not
C21_Witness ==
    /\ pc = "resolved"
    /\ IsDict(Get(Get(request, "query"), "params"))
    /\ Get(Get(Get(request, "query"), "params"), "value") = JStr("error")
    /\ IsDict(response)
    /\ Populated(response, "error")
    /\ ~Populated(response, "value")

\* the params of the query are an object with the key "value"
HasValueKey(query) ==
    /\ IsDict(Get(query, "params"))
    /\ "value" \in DOMAIN Get(query, "params").o

\* a domain fault with the given message
IsDomainFault(r, message) ==
    /\ IsDict(r)
    /\ Get(r, "error") = JStr(message)
    /\ ~Populated(r, "value")

\* C38: handle_evidence_query produces a domain fault in exactly two cases:
\* query.params has no value key (absent, null or falsy params count as
\* empty), and the supplied value is the string "error"; for every other
\* supplied value, JSON null included, it returns the success-shaped result
\* that echoes the value.
C38_DomainFaultCases ==
    pc = "resolved" =>
        LET query == Get(request, "query") IN
        IF ~HasValueKey(query)
        THEN IsDomainFault(response, "params.value is required")
        ELSE IF Get(query, "params").o["value"] = JStr("error")
        THEN IsDomainFault(response, "forced error")
        ELSE /\ IsDict(response)
             /\ Get(response, "error") = JNull
             /\ Get(response, "value") =
                    JObj([kind  |-> JStr("json"),
                          value |-> Get(query, "params").o["value"]])
             /\ Get(response, "content_type") = JStr("application/json")

---------------------------------------------------------------------------
(* Claims on the frames the session writes, checked under Spec              *)

\* C23: write_frame emits the header "Content-Length: n", a blank line and
\* then exactly n payload bytes, n the byte length of the serialised
\* response, and has flushed all of it when it returns: nothing of a response
\* is left in the buffer when the loop starts its next read.
C23_FrameWrittenAndFlushed ==
    /\ Len(stdout) = Len(sent)
    /\ \A i \in 1..Len(sent) :
          LET payload == Dumps(sent[i])
              first   == ReadLine(stdout[i])
              second  == ReadLine(first.rest)
          IN  /\ first.line =
                    Join(<<NAME_CAPITALISED, Lit(IntToCodes(BLen(payload))), CRLF>>)
              /\ second.line = CRLF
              /\ second.rest = payload
              /\ BLen(second.rest) = BLen(payload)
              /\ write_frame_to(Stream(SubSeq(stdout, 1, i - 1)), sent[i]).buffer = Empty

\* the tool list was written and flushed as one frame, and the loop is about
\* to read again
C23_Witness ==
    /\ pc = "read"
    /\ Len(plan) = 2
    /\ plan[1] = "list"
    /\ Len(sent) = 1
    /\ Len(stdout) = 1
    /\ stdout[1] = write_frame(sent[1])
    /\ sent[1].o["result"] = TOOL_LIST_RESULT

---------------------------------------------------------------------------
(* Loopback: a response of the dispatcher is written with write_frame to a  *)
(* stream, and the stream is read with read_frame and decoded.  plan is the *)
(* request, response the response to it, stdin the loopback stream and      *)
(* request the object decoded from it.                                      *)

InitLoopback ==
    /\ plan \in LoopbackRequests
    /\ request = NoValue
    /\ response = NoValue
    /\ pc = "respond"
    /\ stdin = Empty
    /\ stdout = << >>
    /\ sent = << >>
    /\ calls = << >>

\* response = handle_request(request)
Respond ==
    /\ pc = "respond"
    /\ response' = handle_request(plan)
    /\ pc' = "write"
    /\ UNCHANGED <<stdin, stdout, sent, calls, plan, request>>

\* write_frame(stream, response): what is flushed can be read at the other end
WriteBack ==
    /\ pc = "write"
    /\ LET after == write_frame_to(Stream(stdout), response) IN
       /\ stdout' = after.flushed
       /\ stdin' = Cat(stdin, after.flushed[Len(after.flushed)])
    /\ sent' = Append(sent, response)
    /\ pc' = "readback"
    /\ UNCHANGED <<calls, plan, request, response>>

\* read_frame(stream), up to the drain of an oversized body
ReadBack ==
    /\ pc = "readback"
    /\ LET r == read_frame(stdin) IN
       /\ calls' = Append(calls, r)
       /\ stdin' = r.rest
       /\ pc' = IF r.kind = "drain" THEN "drainback" ELSE "decode"
    /\ UNCHANGED <<stdout, sent, plan, request, response>>

\* one turn of the loop of discard_bytes inside read_frame
DrainBack ==
    /\ pc = "drainback"
    /\ LET r == discard_bytes(calls[Len(calls)]) IN
       /\ calls' = [calls EXCEPT ![Len(calls)] = r]
       /\ stdin' = r.rest
       /\ pc' = IF r.kind = "drain" THEN "drainback" ELSE "decode"
    /\ UNCHANGED <<stdout, sent, plan, request, response>>

\* parse_request(payload) on the frame read back
Decode ==
    /\ pc = "decode"
    /\ calls[Len(calls)].kind = "frame"
    /\ request' = parse_request(calls[Len(calls)].payload)
    /\ pc' = "done"
    /\ UNCHANGED <<stdin, stdout, sent, calls, plan, response>>

NextLoopback == Respond \/ WriteBack \/ ReadBack \/ DrainBack \/ Decode

SpecLoopback == InitLoopback /\ [][NextLoopback]_vars

\* C22: every response the dispatcher produces, written with write_frame to
\* a loopback stream, is read back by read_frame as a frame, and decoding
\* that frame gives a response equal to the one written, with the stream
\* fully consumed.
C22_RoundTrip ==
    /\ pc = "decode" => calls[Len(calls)].kind = "frame"
    /\ pc = "done" => (request = response /\ stdin = Empty)

===========================================================================
